---- MODULE Spec2Model ----
(***************************************************************************)
(* A model of the storage core of eliza-rs / asuka-core:                   *)
(*   - SqliteStore (asuka-core/src/stores/sqlite.rs, src/stores/sqlite.rs):*)
(*     the documents table and its vec0 embeddings table;                  *)
(*   - KnowledgeBase (asuka-core/src/knowledge.rs and the later            *)
(*     asuka-core/src/knowledge/store.rs): channels, messages and the      *)
(*     message/document vector stores.                                     *)
(* Every operation runs as one closure on the single tokio_rusqlite        *)
(* connection, so one action is one whole call.                            *)
(***************************************************************************)
EXTENDS Integers, Sequences, FiniteSets, TLC

VARIABLES vs, kb, now, ret, used, rt

vars == <<vs, kb, now, ret, used, rt>>

(***************************************************************************)
(* Bounds of the model.                                                    *)
(***************************************************************************)
\* cap on every AUTOINCREMENT / rowid counter
MaxRowId == 3
\* width of the vec0 embedding column (float[1536] in the source, scaled)
EmbeddingDim == 2
\* largest value of the wall clock (CURRENT_TIMESTAMP, in seconds)
MaxNow == 1
\* longest embedding of the serialization round trip
MaxVecLen == 2
\* longest text handed to chunk_message
MaxTextLen == 4
\* cap on the depth of chunk_message's recursion
MaxCalls == 4
\* MAX_HISTORY_TWEETS (10 in the source, scaled)
MAX_HISTORY_TWEETS == 2
\* MIN_CHUNK_LENGTH, MAX_MESSAGE_LENGTH and MAX_HISTORY_MESSAGES of the Discord
\* client (100, 1500 and 10 in the source, scaled)
MIN_CHUNK_LENGTH == 1
MAX_MESSAGE_LENGTH == 2
MAX_HISTORY_MESSAGES == 2

NULL == "NULL"

(***************************************************************************)
(* Sequences helpers.                                                      *)
(***************************************************************************)
RECURSIVE Concat(_)
Concat(ss) == IF ss = <<>> THEN <<>> ELSE Head(ss) \o Concat(Tail(ss))

(***************************************************************************)
(* Embedding serialization.  An embedding is a Vec<f64>; the model's f64   *)
(* values are non-negative whole numbers below 2^25.  `*x as f32` rounds   *)
(* to the nearest value with a 24-bit significand, ties to even; the blob  *)
(* is the f32 bit patterns, 4 little-endian bytes each.                    *)
(***************************************************************************)
TwoTo24 == 2^24

as_f32(x) ==
    IF x <= TwoTo24 \/ x % 2 = 0 THEN x
    ELSE IF ((x - 1) \div 2) % 2 = 0 THEN x - 1 ELSE x + 1

serialize_embedding(e) == [i \in 1..Len(e) |-> as_f32(e[i])]

Exponent(v) == CHOOSE k \in 0..24 : 2^k <= v /\ v < 2^(k + 1)

f32_to_bits(v) ==
    IF v = 0 THEN 0
    ELSE LET k == Exponent(v)
         IN  (k + 127) * 2^23
               + (IF k <= 23 THEN (v - 2^k) * 2^(23 - k) ELSE (v - 2^k) \div 2)

to_le_bytes(bits) == [i \in 1..4 |-> (bits \div 256^(i - 1)) % 256]

\* the chunks written last element first
as_bytes_reversed(vec) ==
    Concat([i \in 1..Len(vec) |-> to_le_bytes(f32_to_bits(vec[Len(vec) + 1 - i]))])

as_bytes(vec) == Concat([i \in 1..Len(vec) |-> to_le_bytes(f32_to_bits(vec[i]))])

from_le_bytes(chunk) ==
    LET bits == chunk[1] + 256 * chunk[2] + 65536 * chunk[3] + 16777216 * chunk[4]
        k    == (bits \div 2^23) - 127
        mant == bits % 2^23
    IN  IF bits = 0 THEN 0
        ELSE IF k <= 23 THEN 2^k + mant \div 2^(23 - k) ELSE 2^k + 2 * mant

\* bytes.chunks(4).map(|chunk| f32::from_le_bytes(chunk) as f64).collect()
deserialize_embedding(bytes) ==
    [i \in 1..(Len(bytes) \div 4) |-> from_le_bytes(SubSeq(bytes, 4 * i - 3, 4 * i))]

(***************************************************************************)
(* A transaction on the connection: the working copy of the database, the  *)
(* statements executed so far, and whether one of them failed.  `fault` is *)
(* the position of the statement at which the database itself reports an   *)
(* error (busy, I/O); 0 is none.  After a failure `?` returns at once, so  *)
(* no later statement runs.                                                *)
(***************************************************************************)
Begin(db, fault) ==
    [db |-> db, log |-> <<"BEGIN">>, err |-> (fault = 1)]

Stmt(t, label, fault, accepted, db2) ==
    IF t.err THEN t
    ELSE IF fault = Len(t.log) + 1 \/ ~accepted
         THEN [t EXCEPT !.log = Append(@, label), !.err = TRUE]
         ELSE [db |-> db2, log |-> Append(t.log, label), err |-> FALSE]

Commit(t, fault) == Stmt(t, "COMMIT", fault, TRUE, t.db)

\* Transaction's drop rolls the connection back to the state before BEGIN.
Finish_NoRollback(pre, t) == t.db
Finish(pre, t) == IF t.err THEN pre ELSE t.db

(***************************************************************************)
(* The vec0 virtual table: rows keyed by a unique rowid, each holding a    *)
(* vector of exactly EmbeddingDim floats.                                  *)
(***************************************************************************)
\* a table that takes a vector of any width
Vec0Accepts_AnyWidth(rows, rowid, blob) == \A r \in rows : r.rowid # rowid

Vec0Accepts(rows, rowid, blob) ==
    /\ Len(blob) = 4 * EmbeddingDim
    /\ \A r \in rows : r.rowid # rowid

Vec0Insert(rows, rowid, blob) == rows \cup {[rowid |-> rowid, embedding |-> blob]}

(***************************************************************************)
(* Inputs.  A text is embedded by the embedding model into one vector of   *)
(* the store's width; the vector store itself accepts whatever embeddings  *)
(* the caller hands it, so a record may also carry several chunks or a     *)
(* vector of another width.                                                *)
(***************************************************************************)
Contents == {"p", "q"}

Vec(n, v) == [i \in 1..n |-> v]

\* the embedding model: one vector per text (16777217 = 2^24 + 1 is not a f32)
Embed(text) == IF text = "p" THEN Vec(EmbeddingDim, 1) ELSE Vec(EmbeddingDim, 2^24 + 1)

WrongWidth == Vec(EmbeddingDim + 1, 1)

(***************************************************************************)
(* SqliteStore: documents(id INTEGER PRIMARY KEY AUTOINCREMENT,            *)
(* doc_id TEXT UNIQUE NOT NULL, document TEXT NOT NULL) and                *)
(* embeddings USING vec0(embedding float[EmbeddingDim]).                   *)
(***************************************************************************)
DocIds == {"d1", "d2"}

\* DocumentEmbeddings { id, document, embeddings }
DocumentEmbeddings ==
    UNION {[id : DocIds, document : {c},
            embeddings : {<<Embed(c)>>, <<Embed(c), Embed(c)>>, <<WrongWidth>>}]
           : c \in Contents}

\* a batch holds no, one or two records
Batches ==
    {<<>>} \cup {<<d>> : d \in DocumentEmbeddings}
           \cup {<<d, e>> : d \in DocumentEmbeddings, e \in DocumentEmbeddings}

\* the blob bound to ?2: vec.as_slice().as_bytes().to_vec() of the serialized embedding
EmbeddingBlob(embedding) == as_bytes(serialize_embedding(embedding))

Blobs == [e \in {Embed(c) : c \in Contents} \cup {WrongWidth} |-> EmbeddingBlob(e)]

\* a database file in which nothing has been created
EmptyDatabase == [tables |-> {}, documents |-> {}, seq |-> 0, embeddings |-> {}]

\* DROP TABLE IF EXISTS followed by CREATE TABLE
CreateTable_Replace(db, table, empty) ==
    [tables |-> db.tables \cup {table}] @@ empty @@ db

\* CREATE [VIRTUAL] TABLE IF NOT EXISTS: empty gives the fields of the
\* database that hold the table, as they are for a table just created
CreateTableIfNotExists(db, table, empty) ==
    IF table \in db.tables THEN db
    ELSE [tables |-> db.tables \cup {table}] @@ empty @@ db

RECURSIVE CreateTablesIfNotExist(_, _)
CreateTablesIfNotExist(db, tables) ==
    IF tables = <<>> THEN db
    ELSE CreateTablesIfNotExist(CreateTableIfNotExists(db, Head(tables), <<>>), Tail(tables))

\* the execute_batch of SqliteStore::new
SqliteStore_migrate(db) ==
    LET d1 == CreateTableIfNotExists(db, "documents", [documents |-> {}, seq |-> 0])
        d2 == CreateTableIfNotExists(d1, "embeddings", [embeddings |-> {}])
    IN  CreateTablesIfNotExist(d2, <<"accounts", "channels", "channel_members", "messages">>)

\* SqliteStore::new on a fresh path
SqliteStore_new == SqliteStore_migrate(EmptyDatabase)

\* serde_json::Value::to_string and serde_json::from_str on a JSON string
to_string(document) == <<"\"", document, "\"">>
from_str(text) == IF Len(text) = 3 /\ text[1] = "\"" /\ text[3] = "\"" THEN text[2] ELSE NULL

\* a plain INSERT on a table whose doc_id is not UNIQUE: the old row stays
InsertOrReplaceDocument_KeepOld(db, doc) ==
    [db EXCEPT !.documents = @ \cup {[id |-> db.seq + 1, doc_id |-> doc.id,
                                      document |-> to_string(doc.document)]},
               !.seq = @ + 1]

\* INSERT OR REPLACE INTO documents (doc_id, document) VALUES (?1, ?2):
\* the row holding doc_id is deleted and a row with a fresh id is inserted
InsertOrReplaceDocument(db, doc) ==
    [db EXCEPT !.documents = {r \in @ : r.doc_id # doc.id}
                               \cup {[id |-> db.seq + 1, doc_id |-> doc.id,
                                      document |-> to_string(doc.document)]},
               !.seq = @ + 1]

\* tx.last_insert_rowid()
last_insert_rowid(db) == db.seq

\* for embedding in doc.embeddings { stmt.execute(params![doc_id, blob])? }
RECURSIVE StoreEmbeddings(_, _, _, _)
StoreEmbeddings(t, doc_id, embeddings, fault) ==
    IF embeddings = <<>> THEN t
    ELSE LET blob == Blobs[Head(embeddings)]
             t2   == Stmt(t, "INSERT embeddings", fault,
                          Vec0Accepts(t.db.embeddings, doc_id, blob),
                          [t.db EXCEPT !.embeddings = Vec0Insert(@, doc_id, blob)])
         IN  StoreEmbeddings(t2, doc_id, Tail(embeddings), fault)

\* for doc in documents { ... }
RECURSIVE StoreDocuments(_, _, _)
StoreDocuments(t, documents, fault) ==
    IF documents = <<>> THEN t
    ELSE LET doc == Head(documents)
             t2  == Stmt(t, "INSERT OR REPLACE documents", fault, TRUE,
                         InsertOrReplaceDocument(t.db, doc))
             t3  == StoreEmbeddings(t2, last_insert_rowid(t2.db), doc.embeddings, fault)
         IN  StoreDocuments(t3, Tail(documents), fault)

\* the closure of SqliteStore::add_documents, up to tx.commit()
add_documents_txn(db, documents, fault) ==
    Commit(StoreDocuments(Begin(db, fault), documents, fault), fault)

\* number of statements the closure runs when none fails
NStmts(documents) == 2 + Len(documents) + Len(Concat([i \in 1..Len(documents) |-> documents[i].embeddings]))

\* SqliteStore::get_document: SELECT document FROM documents WHERE doc_id = ?1
get_document(db, id) ==
    IF \E r \in db.documents : r.doc_id = id
    THEN from_str((CHOOSE r \in db.documents : r.doc_id = id).document)
    ELSE NULL

\* SqliteStore::get_document_embeddings: the embeddings joined to the row of id,
\* SELECT e.embedding FROM embeddings e JOIN documents d ON e.rowid = d.id WHERE d.doc_id = ?1
get_document_embeddings(db, id) ==
    IF get_document(db, id) = NULL THEN NULL
    ELSE {deserialize_embedding(e.embedding) :
            e \in {e \in db.embeddings :
                     \E d \in db.documents : d.doc_id = id /\ e.rowid = d.id}}

\* whether the closure commits when the database reports no error of its own
Commits(db, documents) == ~add_documents_txn(db, documents, 0).err

\* a database error is drawn for the calls that would otherwise commit
Faults(db, documents) == IF Commits(db, documents) THEN 0..NStmts(documents) ELSE {0}

AddDocuments ==
    \E documents \in Batches :
      \E fault \in Faults(vs, documents) :
        /\ vs.seq + Len(documents) <= MaxRowId
        /\ LET t == add_documents_txn(vs, documents, fault)
           IN  /\ vs' = Finish(vs, t)
               /\ ret' = [op |-> "add_documents", ok |-> ~t.err,
                          error |-> IF t.err THEN "DatastoreError" ELSE NULL,
                          log |-> t.log, arg |-> documents, fault |-> fault,
                          value |-> NULL]
        /\ UNCHANGED <<kb, now, used, rt>>

(***************************************************************************)
(* KnowledgeBase (asuka-core/src/knowledge.rs).                            *)
(* channels(id INTEGER PRIMARY KEY AUTOINCREMENT, channel_id TEXT NOT NULL *)
(* UNIQUE, channel_type, source, name, created_at, updated_at), and one    *)
(* SqliteVectorStore per record kind: a relational table keyed by an       *)
(* auto-incrementing row id and by the declared id, and its vec0 table.    *)
(***************************************************************************)
ChannelIds == {"c1", "c2"}
\* DateTime<Utc> values, in half seconds
Times == {0, 1}

\* Source::as_str, ChannelType::as_str
Source_as_str(source) ==
    CASE source = "Discord" -> "discord" [] source = "Telegram" -> "telegram"
      [] source = "Github" -> "github" [] source = "X" -> "x" [] source = "Twitter" -> "twitter"

ChannelType_as_str(channel_type) ==
    CASE channel_type = "DirectMessage" -> "direct_message" [] channel_type = "Text" -> "text"
      [] channel_type = "Voice" -> "voice" [] channel_type = "Thread" -> "thread"

\* DateTime::to_rfc3339 (SecondsFormat::AutoSi), as character codes: the two
\* digits of the seconds, ".500" when there is a half second, then "+00:00"
to_rfc3339(t) ==
    <<48 + ((t \div 2) \div 10), 48 + ((t \div 2) % 10)>>
      \o (IF t % 2 = 1 THEN <<46, 53, 48, 48>> ELSE <<>>)
      \o <<43, 48, 48, 58, 48, 48>>

\* knowledge::Message, as a chat connector builds it (source_id and account_id
\* are both the author); the author, the kind of channel and the text go with
\* the message id
Message(id, channel_id, created_at) ==
    [id |-> id,
     source |-> "Discord",
     source_id |-> IF id = "m2" THEN "u2" ELSE "u1",
     channel_type |-> IF id = "m2" THEN "DirectMessage" ELSE "Text",
     channel_id |-> channel_id,
     account_id |-> IF id = "m2" THEN "u2" ELSE "u1",
     role |-> "user",
     content |-> IF id = "m1" THEN "p" ELSE "q",
     created_at |-> created_at]

\* two messages that may arrive in either channel at either instant, and a
\* third one of the second channel
Messages ==
    {Message(id, ch, t) : id \in {"m1", "m2"}, ch \in ChannelIds, t \in Times}
       \cup {Message("m3", "c2", 0)}

\* knowledge::Document
Documents ==
    {[id |-> id, source_id |-> "s1", content |-> IF id = "d1" THEN "p" ELSE "q",
      created_at |-> 0] : id \in DocIds}

DocumentBatches == {<<>>} \cup {<<d>> : d \in Documents}
                          \cup {<<d, e>> : d \in Documents, e \in Documents}

EmptyStore == [rows |-> {}, seq |-> 0, ann |-> {}]

\* a connection on which nothing has been created
EmptyConnection ==
    [tables |-> {}, accounts |-> {}, acct_seq |-> 0, channels |-> {}, chan_seq |-> 0,
     messages |-> EmptyStore, documents |-> EmptyStore]

\* SqliteVectorStore::new (create): the table and its ANN table, if not there
SqliteVectorStore_new(db, table) ==
    LET d1 == CreateTableIfNotExists(db, table,
                                     [t \in {table} |-> [db[table] EXCEPT !.rows = {}, !.seq = 0]])
    IN  CreateTableIfNotExists(d1, table \o "_embeddings",
                               [t \in {table} |-> [d1[table] EXCEPT !.ann = {}]])

\* KnowledgeBase::new: the two vector stores, then the execute_batch
KnowledgeBase_migrate(db) ==
    LET d1 == SqliteVectorStore_new(db, "documents")
        d2 == SqliteVectorStore_new(d1, "messages")
        d3 == CreateTableIfNotExists(d2, "accounts", [accounts |-> {}, acct_seq |-> 0])
    IN  CreateTableIfNotExists(d3, "channels", [channels |-> {}, chan_seq |-> 0])

\* KnowledgeBase::new on a fresh connection
KnowledgeBase_new == KnowledgeBase_migrate(EmptyConnection)

\* impl SqliteVectorStoreTable for Message: column_values
Message_column_values(msg) ==
    [id |-> msg.id,
     source |-> Source_as_str(msg.source),
     source_id |-> msg.source_id,
     channel_type |-> ChannelType_as_str(msg.channel_type),
     channel_id |-> msg.channel_id,
     account_id |-> msg.account_id,
     role |-> msg.role,
     content |-> msg.content,
     created_at |-> to_rfc3339(msg.created_at)]

\* impl SqliteVectorStoreTable for Document: column_values
Document_column_values(doc) ==
    [id |-> doc.id, source_id |-> doc.source_id, content |-> doc.content,
     created_at |-> to_rfc3339(doc.created_at)]

\* EmbeddingsBuilder::documents(..).build(): one embedding per record (#[embed] content)
BuildEmbeddings(records) == [i \in 1..Len(records) |-> <<Embed(records[i].content)>>]

\* the upsert without its ON CONFLICT clause, on a table without the UNIQUE
UpsertChannel_AlwaysInsert(db, channel_id, channel_type, source) ==
    [db EXCEPT !.channels = @ \cup {[id |-> db.chan_seq + 1, channel_id |-> channel_id,
                                     channel_type |-> channel_type, source |-> source,
                                     name |-> NULL, created_at |-> now, updated_at |-> now]},
               !.chan_seq = @ + 1]

\* the upsert with DO UPDATE SET channel_type = excluded.channel_type,
\* source = excluded.source, updated_at = CURRENT_TIMESTAMP
UpsertChannel_Overwrite(db, channel_id, channel_type, source) ==
    IF \E c \in db.channels : c.channel_id = channel_id
    THEN [db EXCEPT !.channels = {IF c.channel_id = channel_id
                                  THEN [c EXCEPT !.channel_type = channel_type,
                                                 !.source = source, !.updated_at = now]
                                  ELSE c : c \in @}]
    ELSE [db EXCEPT !.channels = @ \cup {[id |-> db.chan_seq + 1, channel_id |-> channel_id,
                                          channel_type |-> channel_type, source |-> source,
                                          name |-> NULL, created_at |-> now, updated_at |-> now]},
                    !.chan_seq = @ + 1]

\* INSERT INTO channels (...) VALUES (?1, ?2, ?3, NULL, CURRENT_TIMESTAMP, CURRENT_TIMESTAMP)
\* ON CONFLICT (channel_id) DO UPDATE SET updated_at = CURRENT_TIMESTAMP
UpsertChannel(db, channel_id, channel_type, source) ==
    IF \E c \in db.channels : c.channel_id = channel_id
    THEN [db EXCEPT !.channels = {IF c.channel_id = channel_id
                                  THEN [c EXCEPT !.updated_at = now] ELSE c : c \in @}]
    ELSE [db EXCEPT !.channels = @ \cup {[id |-> db.chan_seq + 1, channel_id |-> channel_id,
                                          channel_type |-> channel_type, source |-> source,
                                          name |-> NULL, created_at |-> now, updated_at |-> now]},
                    !.chan_seq = @ + 1]

\* write_batch: INSERT OR REPLACE of the record's column values by declared id
\* under a fresh row id
InsertOrReplaceRow(store, values) ==
    [store EXCEPT !.rows = {r \in @ : r.id # values.id}
                             \cup {[rowid |-> store.seq + 1] @@ values},
                  !.seq = @ + 1]

\* write_batch: one ANN row per embedding, keyed to the record's row id
RECURSIVE InsertAnnRows(_, _, _, _, _)
InsertAnnRows(t, table, rowid, embeddings, fault) ==
    IF embeddings = <<>> THEN t
    ELSE LET blob == Blobs[Head(embeddings)]
             t2   == Stmt(t, "INSERT " \o table \o "_embeddings", fault,
                          Vec0Accepts(t.db[table].ann, rowid, blob),
                          [t.db EXCEPT ![table].ann = Vec0Insert(@, rowid, blob)])
         IN  InsertAnnRows(t2, table, rowid, Tail(embeddings), fault)

\* SqliteVectorStore::add_rows_with_txn (write_batch_in_transaction)
RECURSIVE add_rows_with_txn(_, _, _, _, _)
add_rows_with_txn(t, table, values, embeddings, fault) ==
    IF values = <<>> THEN t
    ELSE LET t2 == Stmt(t, "INSERT OR REPLACE " \o table, fault, TRUE,
                        [t.db EXCEPT ![table] = InsertOrReplaceRow(@, Head(values))])
             t3 == InsertAnnRows(t2, table, t2.db[table].seq, Head(embeddings), fault)
         IN  add_rows_with_txn(t3, table, Tail(values), Tail(embeddings), fault)

\* SqliteVectorStore::add_rows (write_batch): the same in a transaction of its own
add_rows(db, table, values, embeddings, fault) ==
    Commit(add_rows_with_txn(Begin(db, fault), table, values, embeddings, fault), fault)

\* the closure create_message hands to conn.call
create_message_closure(db, msg, embeddings, fault) ==
    LET tx == Begin(db, fault)
        t1 == Stmt(tx, "UPSERT channels", fault, TRUE,
                   UpsertChannel(tx.db, msg.channel_id,
                                 ChannelType_as_str(msg.channel_type),
                                 Source_as_str(msg.source)))
        t2 == add_rows_with_txn(t1, "messages", <<Message_column_values(msg)>>,
                                embeddings, fault)
    IN  Commit(t2, fault)

Outcome(db, ok, error, log, value) ==
    [db |-> db, ok |-> ok, error |-> error, log |-> log, value |-> value]

\* the statements run one by one on the connection, outside a transaction
create_message_autocommit(db, msg, model_ok, fault) ==
    IF ~model_ok THEN Outcome(db, FALSE, "ModelError", <<>>, NULL)
    ELSE LET t == create_message_closure(db, msg, BuildEmbeddings(<<msg>>), fault)
         IN  Outcome(t.db, ~t.err, IF t.err THEN "DatabaseError" ELSE NULL, t.log,
                     IF t.err THEN NULL ELSE t.db.messages.seq)

\* the call returns the id of the channels row of the message
create_message_channel_rowid(db, msg, model_ok, fault) ==
    IF ~model_ok THEN Outcome(db, FALSE, "ModelError", <<>>, NULL)
    ELSE LET t == create_message_closure(db, msg, BuildEmbeddings(<<msg>>), fault)
         IN  Outcome(Finish(db, t), ~t.err, IF t.err THEN "DatabaseError" ELSE NULL, t.log,
                     IF t.err THEN NULL
                     ELSE (CHOOSE c \in t.db.channels : c.channel_id = msg.channel_id).id)

\* the closure is handed to the connection a second time when it failed
create_message_retry(db, msg, model_ok, fault) ==
    IF ~model_ok THEN Outcome(db, FALSE, "ModelError", <<>>, NULL)
    ELSE LET t == create_message_closure(db, msg, BuildEmbeddings(<<msg>>), fault)
             u == create_message_closure(db, msg, BuildEmbeddings(<<msg>>), 0)
         IN  IF t.err
             THEN Outcome(Finish(db, u), ~u.err, IF u.err THEN "DatabaseError" ELSE NULL,
                          t.log \o u.log, IF u.err THEN NULL ELSE u.db.messages.seq)
             ELSE Outcome(t.db, TRUE, NULL, t.log, t.db.messages.seq)

\* KnowledgeBase::create_message
create_message(db, msg, model_ok, fault) ==
    IF ~model_ok THEN Outcome(db, FALSE, "ModelError", <<>>, NULL)
    ELSE LET t == create_message_closure(db, msg, BuildEmbeddings(<<msg>>), fault)
         IN  Outcome(Finish(db, t), ~t.err, IF t.err THEN "DatabaseError" ELSE NULL, t.log,
                     IF t.err THEN NULL ELSE t.db.messages.seq)

\* the transaction is opened before the documents are embedded
kb_add_documents_embed_late(db, documents, model_ok, fault) ==
    IF ~model_ok THEN Outcome(db, FALSE, "ModelError", <<"BEGIN">>, NULL)
    ELSE LET values == [i \in 1..Len(documents) |-> Document_column_values(documents[i])]
             t == add_rows(db, "documents", values, BuildEmbeddings(documents), fault)
         IN  Outcome(Finish(db, t), ~t.err, IF t.err THEN "DatabaseError" ELSE NULL, t.log, NULL)

\* KnowledgeBase::add_documents
kb_add_documents(db, documents, model_ok, fault) ==
    IF ~model_ok THEN Outcome(db, FALSE, "ModelError", <<>>, NULL)
    ELSE LET values == [i \in 1..Len(documents) |-> Document_column_values(documents[i])]
             t == add_rows(db, "documents", values, BuildEmbeddings(documents), fault)
         IN  Outcome(Finish(db, t), ~t.err, IF t.err THEN "DatabaseError" ELSE NULL, t.log, NULL)

\* CURRENT_TIMESTAMP, as character codes: the two digits of the seconds
CURRENT_TIMESTAMP == <<48 + (now \div 10), 48 + (now % 10)>>

\* knowledge/store.rs: INSERT INTO messages (id, channel_id, account_id, content, role,
\* created_at) VALUES (.., CURRENT_TIMESTAMP) ON CONFLICT (id) DO UPDATE SET ...
UpsertMessage(store, msg) ==
    IF \E r \in store.rows : r.id = msg.id
    THEN [store EXCEPT !.rows = {IF r.id = msg.id
                                 THEN [r EXCEPT !.channel_id = msg.channel_id,
                                                !.account_id = msg.account_id,
                                                !.content = msg.content,
                                                !.role = msg.role,
                                                !.created_at = CURRENT_TIMESTAMP]
                                 ELSE r : r \in @}]
    ELSE [store EXCEPT !.rows = @ \cup {[rowid |-> store.seq + 1, id |-> msg.id,
                                         source |-> NULL, source_id |-> NULL,
                                         channel_type |-> NULL,
                                         channel_id |-> msg.channel_id,
                                         account_id |-> msg.account_id,
                                         role |-> msg.role, content |-> msg.content,
                                         created_at |-> CURRENT_TIMESTAMP]},
                       !.seq = @ + 1]

\* knowledge/store.rs: the closure create_message hands to conn.call
store_create_message_closure(db, msg, embeddings, fault) ==
    LET tx == Begin(db, fault)
        t1 == Stmt(tx, "UPSERT messages", fault, TRUE,
                   [tx.db EXCEPT !.messages = UpsertMessage(@, msg)])
        t2 == add_rows_with_txn(t1, "messages", <<Message_column_values(msg)>>,
                                embeddings, fault)
    IN  Commit(t2, fault)

\* knowledge/store.rs: KnowledgeBase::create_message
store_create_message(db, msg, model_ok, fault) ==
    IF ~model_ok THEN Outcome(db, FALSE, "ModelError", <<>>, NULL)
    ELSE LET t == store_create_message_closure(db, msg, BuildEmbeddings(<<msg>>), fault)
         IN  Outcome(Finish(db, t), ~t.err, IF t.err THEN "DatabaseError" ELSE NULL, t.log,
                     IF t.err THEN NULL ELSE t.db.messages.seq)

(***************************************************************************)
(* The dimension tables accounts and channels, as KnowledgeBase::new        *)
(* declares them, and INSERT ... ON CONFLICT (target) DO UPDATE SET ...     *)
(* RETURNING id as SQLite runs it.                                         *)
(***************************************************************************)
\* CREATE TABLE accounts (id INTEGER PRIMARY KEY AUTOINCREMENT, name TEXT NOT NULL,
\* source_id TEXT NOT NULL UNIQUE, source TEXT NOT NULL, created_at, updated_at)
AccountsTable ==
    [rows |-> "accounts", seq |-> "acct_seq",
     columns |-> {"name", "source_id", "source", "created_at", "updated_at"},
     not_null |-> {"name", "source_id", "source"},
     unique |-> {"id", "source_id"}]

\* CREATE TABLE channels (id INTEGER PRIMARY KEY AUTOINCREMENT, channel_id TEXT NOT
\* NULL UNIQUE, channel_type TEXT NOT NULL, source TEXT NOT NULL, name TEXT, ...)
ChannelsTable ==
    [rows |-> "channels", seq |-> "chan_seq",
     columns |-> {"channel_id", "channel_type", "source", "name", "created_at",
                  "updated_at"},
     not_null |-> {"channel_id", "channel_type", "source"},
     unique |-> {"id", "channel_id"}]

\* the columns the statement leaves out are NULL (the timestamp columns have a
\* default, but every statement here gives them)
RowValues(table, values) ==
    [c \in table.columns |-> IF c \in DOMAIN values THEN values[c] ELSE NULL]

\* INSERT INTO table (..) VALUES (..) ON CONFLICT (target) DO UPDATE SET set
\* RETURNING id.  The statement does not compile when target is not a PRIMARY
\* KEY or UNIQUE column; NOT NULL is checked before the uniqueness conflict
\* and is not handled by the upsert clause.
InsertOnConflictDoUpdate(db, table, values, target, set) ==
    LET row == RowValues(table, values)
    IN  IF target \notin table.unique THEN [db |-> db, err |-> TRUE, id |-> NULL]
        ELSE IF \E c \in table.not_null : row[c] = NULL
        THEN [db |-> db, err |-> TRUE, id |-> NULL]
        ELSE IF \E r \in db[table.rows] : r[target] = row[target]
        THEN LET old == CHOOSE r \in db[table.rows] : r[target] = row[target]
             IN  [db |-> [db EXCEPT ![table.rows] = (@ \ {old}) \cup {set @@ old}],
                  err |-> FALSE, id |-> old.id]
        ELSE [db |-> [db EXCEPT ![table.rows] = @ \cup {[id |-> db[table.seq] + 1] @@ row},
                                ![table.seq] = @ + 1],
              err |-> FALSE, id |-> db[table.seq] + 1]

\* name = COALESCE(?3, name)
Coalesce(a, b) == IF a # NULL THEN a ELSE b

\* the name of the row the statement conflicts with
OldName(db, channel_id) ==
    IF \E c \in db.channels : c.channel_id = channel_id
    THEN (CHOOSE c \in db.channels : c.channel_id = channel_id).name
    ELSE NULL

\* knowledge.rs: KnowledgeBase::create_user(name, source)
create_user(db, name, source) ==
    LET r == InsertOnConflictDoUpdate(db, AccountsTable,
                 [name |-> name, source |-> source, created_at |-> now, updated_at |-> now],
                 "name", [updated_at |-> now])
    IN  Outcome(r.db, ~r.err, IF r.err THEN "DatabaseError" ELSE NULL,
                <<"UPSERT accounts">>, r.id)

\* knowledge.rs: KnowledgeBase::create_channel(channel_id, channel_type, name)
create_channel(db, channel_id, channel_type, name) ==
    LET r == InsertOnConflictDoUpdate(db, ChannelsTable,
                 [channel_id |-> channel_id, channel_type |-> channel_type, name |-> name,
                  created_at |-> now, updated_at |-> now],
                 "channel_id",
                 [name |-> Coalesce(name, OldName(db, channel_id)), updated_at |-> now])
    IN  Outcome(r.db, ~r.err, IF r.err THEN "DatabaseError" ELSE NULL,
                <<"UPSERT channels">>, r.id)

\* knowledge/store.rs: KnowledgeBase::create_user(name, source, source_id)
store_create_user(db, name, source, source_id) ==
    LET r == InsertOnConflictDoUpdate(db, AccountsTable,
                 [name |-> name, source |-> source, created_at |-> now, updated_at |-> now,
                  source_id |-> source_id],
                 "source_id", [updated_at |-> now])
    IN  Outcome(r.db, ~r.err, IF r.err THEN "DatabaseError" ELSE NULL,
                <<"UPSERT accounts">>, r.id)

\* knowledge/store.rs: KnowledgeBase::create_channel(channel_id, channel_type, name, source)
store_create_channel(db, channel_id, channel_type, name, source) ==
    LET r == InsertOnConflictDoUpdate(db, ChannelsTable,
                 [channel_id |-> channel_id, channel_type |-> channel_type,
                  source |-> source, name |-> name, created_at |-> now, updated_at |-> now],
                 "channel_id",
                 [name |-> Coalesce(name, OldName(db, channel_id)), updated_at |-> now])
    IN  Outcome(r.db, ~r.err, IF r.err THEN "DatabaseError" ELSE NULL,
                <<"UPSERT channels">>, r.id)

\* memcmp order of two TEXT values (BINARY collation)
RECURSIVE TextLess(_, _)
TextLess(a, b) ==
    IF b = <<>> THEN FALSE
    ELSE IF a = <<>> THEN TRUE
    ELSE IF Head(a) # Head(b) THEN Head(a) < Head(b)
    ELSE TextLess(Tail(a), Tail(b))

\* i64::to_string, for the limits used here (one digit)
i64_to_string(n) == IF n < 0 THEN <<45, 48 - n>> ELSE <<48 + n>>

\* the integer SQLite reads from a TEXT value bound to LIMIT
text_to_integer(text) ==
    IF Head(text) = 45 THEN 0 - (text[2] - 48) ELSE text[1] - 48

\* the LIMIT clause left out
Limit_Ignored(rows, n) == rows

\* LIMIT n: a negative n means no limit
Limit(rows, n) == IF n < 0 \/ n >= Len(rows) THEN rows ELSE SubSeq(rows, 1, n)

\* WHERE channel_id = ?1
ChannelRows(db, channel_id) == {r \in db.messages.rows : r.channel_id = channel_id}

\* the rows in every order with created_at ascending
OrderByCreatedAtAsc(rows) ==
    {s \in [1..Cardinality(rows) -> rows] :
        /\ \A i, j \in DOMAIN s : i # j => s[i] # s[j]
        /\ \A i, j \in DOMAIN s : i < j => ~TextLess(s[j].created_at, s[i].created_at)}

\* ORDER BY created_at DESC: every order of the rows SQLite may produce (rows
\* with equal created_at come in either order)
OrderByCreatedAtDesc(rows) ==
    {s \in [1..Cardinality(rows) -> rows] :
        /\ \A i, j \in DOMAIN s : i # j => s[i] # s[j]
        /\ \A i, j \in DOMAIN s : i < j => ~TextLess(s[i].created_at, s[j].created_at)}

\* the rows the SELECT of channel_messages may visit, in order
channel_messages_rows(db, channel_id, limit) ==
    {Limit(s, text_to_integer(i64_to_string(limit))) :
        s \in OrderByCreatedAtDesc(ChannelRows(db, channel_id))}

\* |row| Ok((row.get(0)?, row.get(1)?))
Project(rows) == [i \in 1..Len(rows) |-> <<rows[i].source_id, rows[i].content>>]

Limits == -1..2

\* rows written over the connection so far
RowsWritten == kb.messages.seq + kb.documents.seq

\* the last call, as its caller and the connection saw it; the record written
\* is kept for a call that committed
Returned(op, o, arg, fault) ==
    [op |-> op, ok |-> o.ok, error |-> o.error, log |-> o.log,
     arg |-> IF o.ok THEN arg ELSE NULL, fault |-> fault, value |-> o.value]

CreateMessage ==
    \E msg \in Messages, model_ok \in BOOLEAN, fault \in 0..5 :
        /\ RowsWritten + 1 <= MaxRowId
        /\ model_ok \/ fault = 0
        /\ LET o == create_message(kb, msg, model_ok, fault)
           IN  /\ kb' = o.db
               /\ ret' = Returned("create_message", o, msg, fault)
               /\ used' = IF o.ok
                          THEN [channels |-> used.channels \cup {msg.channel_id},
                                messages |-> used.messages \cup {msg.id}]
                          ELSE used
        /\ UNCHANGED <<vs, now, rt>>

KbAddDocuments ==
    \E documents \in DocumentBatches, model_ok \in BOOLEAN :
      \E fault \in 0..(2 + 2 * Len(documents)) :
        /\ RowsWritten + Len(documents) <= MaxRowId
        /\ model_ok \/ fault = 0
        /\ LET o == kb_add_documents(kb, documents, model_ok, fault)
           IN  /\ kb' = o.db
               /\ ret' = Returned("add_documents", o, documents, fault)
        /\ UNCHANGED <<vs, now, used, rt>>

\* knowledge/store.rs: create_message (each call takes up to two row ids)
StoreCreateMessage ==
    \E msg \in Messages, model_ok \in BOOLEAN, fault \in 0..5 :
        /\ kb.messages.seq + 2 <= 2 * MaxRowId
        /\ model_ok \/ fault = 0
        /\ LET o == store_create_message(kb, msg, model_ok, fault)
           IN  /\ kb' = o.db
               /\ ret' = Returned("create_message", o, msg, fault)
               /\ used' = IF o.ok
                          THEN [channels |-> used.channels \cup {msg.channel_id},
                                messages |-> used.messages \cup {msg.id}]
                          ELSE used
        /\ UNCHANGED <<vs, now, rt>>

\* KnowledgeBase::channel_messages
ChannelMessages ==
    \E channel_id \in ChannelIds, limit \in Limits :
      \E rows \in channel_messages_rows(kb, channel_id, limit) :
        /\ ret' = [op |-> "channel_messages", ok |-> TRUE, error |-> NULL,
                   log |-> <<"SELECT messages">>,
                   arg |-> [channel_id |-> channel_id, limit |-> limit],
                   fault |-> 0, value |-> Project(rows)]
        /\ UNCHANGED <<vs, kb, now, used, rt>>

\* a second passes
Tick ==
    /\ now < MaxNow
    /\ now' = now + 1
    /\ UNCHANGED <<vs, kb, ret, used, rt>>

\* what callers pass to the dimension-table operations
Names == {"alice", "bob"}
SourceIds == {"u1", "u2"}
Sources == {"discord", "telegram"}
ChannelTypes == {"text", "voice"}
ChannelNames == {NULL, "general", "random"}

\* knowledge.rs: create_message, when the model answers and the database
\* reports no error, for messages written at their arrival
CreateMessageNow ==
    \E msg \in {m \in Messages : m.created_at = 0 /\ m.id # "m3"} :
        /\ RowsWritten + 1 <= MaxRowId
        /\ LET o == create_message(kb, msg, TRUE, 0)
           IN  /\ kb' = o.db
               /\ ret' = Returned("create_message", o, msg, 0)
               /\ used' = [channels |-> used.channels \cup {msg.channel_id},
                           messages |-> used.messages \cup {msg.id}]
        /\ UNCHANGED <<vs, now, rt>>

\* knowledge.rs: create_user
CreateUser ==
    \E name \in Names, source \in Sources :
        LET o == create_user(kb, name, source)
        IN  /\ kb' = o.db
            /\ ret' = [Returned("create_user", o, NULL, 0)
                         EXCEPT !.arg = [name |-> name, source |-> source]]
            /\ UNCHANGED <<vs, now, used, rt>>

\* knowledge.rs: create_channel
CreateChannel ==
    \E channel_id \in ChannelIds, channel_type \in ChannelTypes, name \in ChannelNames :
        LET o == create_channel(kb, channel_id, channel_type, name)
        IN  /\ kb' = o.db
            /\ ret' = [Returned("create_channel", o, NULL, 0)
                         EXCEPT !.arg = [channel_id |-> channel_id,
                                         channel_type |-> channel_type, name |-> name]]
            /\ UNCHANGED <<vs, now, used, rt>>

\* knowledge/store.rs: create_user
StoreCreateUser ==
    \E name \in Names, source \in Sources, source_id \in SourceIds :
        LET o == store_create_user(kb, name, source, source_id)
        IN  /\ kb' = o.db
            /\ ret' = [Returned("create_user", o, NULL, 0)
                         EXCEPT !.arg = [name |-> name, source |-> source,
                                         source_id |-> source_id]]
            /\ UNCHANGED <<vs, now, used, rt>>

\* knowledge/store.rs: create_channel
StoreCreateChannel ==
    \E channel_id \in ChannelIds, channel_type \in ChannelTypes, name \in ChannelNames,
       source \in Sources :
        LET o == store_create_channel(kb, channel_id, channel_type, name, source)
        IN  /\ kb' = o.db
            /\ ret' = [Returned("create_channel", o, NULL, 0)
                         EXCEPT !.arg = [channel_id |-> channel_id,
                                         channel_type |-> channel_type, name |-> name,
                                         source |-> source]]
            /\ UNCHANGED <<vs, now, used, rt>>

(***************************************************************************)
(* SqliteVectorIndex (asuka-core/src/stores/sqlite.rs): top_n, top_n_ids.  *)
(* vec0 measures the L2 distance; the distance column is modelled by its   *)
(* square, which orders the rows the same way, as a number <<high, low>>   *)
(* in base 2^24.                                                           *)
(***************************************************************************)
Square(d) ==
    LET h   == d \div 4096
        l   == d % 4096
        m   == 2 * h * l
        low == (m % 4096) * 4096 + l * l
    IN  <<h * h + m \div 4096 + low \div TwoTo24, low % TwoTo24>>

Plus(a, b) == <<a[1] + b[1] + (a[2] + b[2]) \div TwoTo24, (a[2] + b[2]) % TwoTo24>>

Abs(x) == IF x < 0 THEN 0 - x ELSE x

RECURSIVE distance_l2_squared(_, _)
distance_l2_squared(a, b) ==
    IF a = <<>> THEN <<0, 0>>
    ELSE Plus(Square(Abs(Head(a) - Head(b))), distance_l2_squared(Tail(a), Tail(b)))

DistanceLess(x, y) == x[1] < y[1] \/ (x[1] = y[1] /\ x[2] < y[2])

\* how vec0 orders two rows at the same distance: not specified
Ties == {"oldest", "newest"}

\* the farthest rows first
KnnBefore_Farthest(x, y, tie) ==
    \/ DistanceLess(y.distance, x.distance)
    \/ /\ x.distance = y.distance
       /\ IF tie = "oldest" THEN x.rowid < y.rowid ELSE x.rowid > y.rowid

\* the order in which a KNN query yields the rows: nearest first
KnnBefore(x, y, tie) ==
    \/ DistanceLess(x.distance, y.distance)
    \/ /\ x.distance = y.distance
       /\ IF tie = "oldest" THEN x.rowid < y.rowid ELSE x.rowid > y.rowid

\* a query vector of any width is taken
Vec0QueryAccepts_AnyWidth(blob) == TRUE

\* vec0 fails a MATCH whose vector has not the width of the column
Vec0QueryAccepts(blob) == Len(blob) = 4 * EmbeddingDim

\* the f32 values vec0 reads from each blob the table can hold
StoredVectors == [b \in {Blobs[e] : e \in DOMAIN Blobs} |-> deserialize_embedding(b)]

\* WHERE e.embedding MATCH ?1 AND k = ?2: the k nearest rows of embeddings
Knn(db, query_vec, k, tie) ==
    LET cand == {[rowid |-> e.rowid,
                  distance |-> distance_l2_squared(StoredVectors[e.embedding],
                                                   query_vec)] : e \in db.embeddings}
        sorted == CHOOSE s \in [1..Cardinality(cand) -> cand] :
                     \A i, j \in DOMAIN s : i < j => KnnBefore(s[i], s[j], tie)
    IN  IF k >= Len(sorted) THEN sorted ELSE SubSeq(sorted, 1, k)

\* SELECT d.doc_id, e.distance FROM embeddings e JOIN documents d ON e.rowid = d.id
\* WHERE e.embedding MATCH ?1 AND k = ?2 ORDER BY e.distance
KnnJoinDocuments(db, query_vec, k, tie) ==
    LET hits == SelectSeq(Knn(db, query_vec, k, tie),
                          LAMBDA x : \E d \in db.documents : d.id = x.rowid)
    IN  [i \in 1..Len(hits) |->
           [doc_id |-> (CHOOSE d \in db.documents : d.id = hits[i].rowid).doc_id,
            distance |-> hits[i].distance]]

\* the record types a caller may ask top_n for: String, and an enum Kind
\* whose one variant is p
Types == {"String", "Kind"}

DeserErr == "serde_json::Error"

\* serde_json::from_str::<T>
from_str_as(T, text) ==
    LET v == from_str(text)
    IN  IF v = NULL THEN DeserErr
        ELSE IF T = "String" \/ v = "p" THEN v ELSE DeserErr

\* embedding_model.embed_document(query) of an index whose model has dims
\* dimensions
embed_document(dims, query) == Vec(dims, Embed(query)[1])

\* query_vec.as_bytes() of every query an index can put
QueryBlobs ==
    [q \in {EmbeddingDim, EmbeddingDim + 1} \X Contents |->
       as_bytes(serialize_embedding(embed_document(q[1], q[2])))]

Failed(error, log) == [ok |-> FALSE, error |-> error, log |-> log, value |-> NULL]

Succeeded(log, value) == [ok |-> TRUE, error |-> NULL, log |-> log, value |-> value]

\* top_n_ids with the k of the query left out
top_n_ids_all(db, a) ==
    IF ~a.model_ok THEN Failed("ModelError", <<>>)
    ELSE LET query_vec == serialize_embedding(embed_document(a.dims, a.query))
         IN  IF ~Vec0QueryAccepts(QueryBlobs[<<a.dims, a.query>>])
             THEN Failed("DatastoreError", <<"SELECT embeddings">>)
             ELSE LET rows == KnnJoinDocuments(db, query_vec, Cardinality(db.embeddings),
                                               a.tie)
                  IN  Succeeded(<<"SELECT embeddings">>,
                                [i \in 1..Len(rows) |-> <<rows[i].distance, rows[i].doc_id>>])

\* SqliteVectorIndex::top_n_ids; a = [query, dims, model_ok, n, tie, T]
top_n_ids(db, a) ==
    IF ~a.model_ok THEN Failed("ModelError", <<>>)
    ELSE LET query_vec == serialize_embedding(embed_document(a.dims, a.query))
         IN  IF ~Vec0QueryAccepts(QueryBlobs[<<a.dims, a.query>>])
             THEN Failed("DatastoreError", <<"SELECT embeddings">>)
             ELSE LET rows == KnnJoinDocuments(db, query_vec, a.n, a.tie)
                  IN  Succeeded(<<"SELECT embeddings">>,
                                [i \in 1..Len(rows) |-> <<rows[i].distance, rows[i].doc_id>>])

\* SqliteStore::get_document::<T>: None (NULL), the record, or the error
get_document_as(db, id, T) ==
    IF \E r \in db.documents : r.doc_id = id
    THEN from_str_as(T, (CHOOSE r \in db.documents : r.doc_id = id).document)
    ELSE NULL

\* SqliteVectorIndex::top_n::<T>
top_n(db, a) ==
    IF ~a.model_ok THEN Failed("ModelError", <<>>)
    ELSE LET query_vec == serialize_embedding(embed_document(a.dims, a.query))
         IN  IF ~Vec0QueryAccepts(QueryBlobs[<<a.dims, a.query>>])
             THEN Failed("DatastoreError", <<"SELECT embeddings">>)
             ELSE LET rows == KnnJoinDocuments(db, query_vec, a.n, a.tie)
                      docs == [i \in 1..Len(rows) |-> get_document_as(db, rows[i].doc_id, a.T)]
                      log  == <<"SELECT embeddings">>
                                \o [i \in 1..Len(rows) |-> "SELECT documents"]
                      some == {i \in 1..Len(rows) : docs[i] # NULL}
                      kept == SelectSeq([i \in 1..Len(rows) |-> i], LAMBDA i : i \in some)
                  IN  IF \E i \in 1..Len(rows) : docs[i] = DeserErr
                      THEN Failed("DatastoreError",
                                  SubSeq(log, 1, 1 + CHOOSE i \in 1..Len(rows) :
                                                      /\ docs[i] = DeserErr
                                                      /\ \A j \in 1..(i - 1) : docs[j] # DeserErr))
                      ELSE Succeeded(log, [i \in 1..Len(kept) |->
                                             <<rows[kept[i]].distance, rows[kept[i]].doc_id,
                                               docs[kept[i]]>>])

\* the calls made to an index: the query text, the dimensionality of the
\* index's model, whether the model answers, n, the order of ties, and T;
\* what a call that fails early never uses is fixed
TopNArgs ==
    {a \in [query : Contents, dims : {EmbeddingDim, EmbeddingDim + 1}, model_ok : BOOLEAN,
            n : {1, 2}, tie : Ties, T : Types] :
        (~a.model_ok \/ a.dims # EmbeddingDim) => (a.tie = "oldest" /\ a.T = "String")}

\* the batches EmbeddingsBuilder::simple_document builds: the content as the
\* document, and its one embedding
SimpleDocuments == {[id |-> id, document |-> c, embeddings |-> <<Embed(c)>>] :
                      id \in DocIds, c \in Contents}

SimpleBatches == {<<d>> : d \in SimpleDocuments}
                    \cup {<<d, e>> : d \in SimpleDocuments, e \in SimpleDocuments}

\* KnowledgeBase::add_documents of src/knowledge.rs: the documents are
\* embedded, then handed to SqliteStore::add_documents
AddSimpleDocuments ==
    \E documents \in SimpleBatches, model_ok \in BOOLEAN :
       /\ vs.seq + Len(documents) <= MaxRowId
       /\ IF model_ok
          THEN LET t == add_documents_txn(vs, documents, 0)
               IN  /\ vs' = Finish(vs, t)
                   /\ ret' = [op |-> "add_documents", ok |-> ~t.err,
                              error |-> IF t.err THEN "DatastoreError" ELSE NULL,
                              log |-> t.log, arg |-> documents, fault |-> 0,
                              value |-> NULL]
          ELSE /\ vs' = vs
               /\ ret' = [op |-> "add_documents", ok |-> FALSE, error |-> "ModelError",
                          log |-> <<>>, arg |-> documents, fault |-> 0, value |-> NULL]
       /\ UNCHANGED <<kb, now, used, rt>>

TopN ==
    \E a \in TopNArgs :
       /\ ret' = [op |-> "top_n", arg |-> a, fault |-> 0] @@ top_n(vs, a)
       /\ UNCHANGED <<vs, kb, now, used, rt>>

TopNIds ==
    \E a \in TopNArgs :
       /\ a.T = "String"
       /\ ret' = [op |-> "top_n_ids", arg |-> a, fault |-> 0] @@ top_n_ids(vs, a)
       /\ UNCHANGED <<vs, kb, now, used, rt>>

\* SqliteStore::new on the path of the store that exists
SqliteStoreNew ==
    /\ vs' = SqliteStore_migrate(vs)
    /\ ret' = [op |-> "new", ok |-> TRUE, error |-> NULL,
               log |-> <<"BEGIN", "CREATE IF NOT EXISTS", "COMMIT">>, arg |-> NULL,
               fault |-> 0, value |-> NULL]
    /\ UNCHANGED <<kb, now, used, rt>>

\* KnowledgeBase::new on the connection of the knowledge base that exists
KnowledgeBaseNew ==
    /\ kb' = KnowledgeBase_migrate(kb)
    /\ ret' = [op |-> "new", ok |-> TRUE, error |-> NULL,
               log |-> <<"BEGIN", "CREATE IF NOT EXISTS", "COMMIT">>, arg |-> NULL,
               fault |-> 0, value |-> NULL]
    /\ UNCHANGED <<vs, now, used, rt>>

\* the state after construction, but for the callers of the connection
InitStores ==
    /\ vs = SqliteStore_new
    /\ kb = KnowledgeBase_new
    /\ now = 0
    /\ ret = [op |-> "new", ok |-> TRUE, error |-> NULL, log |-> <<>>, arg |-> NULL,
              fault |-> 0, value |-> NULL]
    /\ used = [channels |-> {}, messages |-> {}]

(***************************************************************************)
(* Concurrent callers of the one tokio_rusqlite connection.  Connection::  *)
(* call sends its closure over an unbounded channel to the connection's    *)
(* thread, which runs the closures it receives one after the other.        *)
(* rt holds the callers: job (the call each one makes), pc, the channel    *)
(* (queue), the statement each closure has reached (step), the database as *)
(* it was at BEGIN while a transaction is open (tx), the results (out),    *)
(* and two records of the history: the statements the connection executed  *)
(* (trace) and the states it committed (committed).  kb is the database as *)
(* the connection sees it.                                                 *)
(***************************************************************************)
Writers == {"w1", "w2"}

Readers == {"r"}

Tasks == Writers \cup Readers

NoCallers == [job |-> <<>>, pc |-> <<>>, queue |-> <<>>, step |-> <<>>, tx |-> <<>>,
              out |-> <<>>, trace |-> <<>>, committed |-> {}]

\* two create_message calls for different channels and different message
\* ids, and one channel_messages call
Jobs ==
    {j \in [w1 : Messages, w2 : Messages,
            r : [channel_id : ChannelIds, limit : Limits]] :
        /\ j.w1.channel_id = "c1" /\ j.w2.channel_id = "c2"
        /\ j.w1.id # j.w2.id}

InitConc ==
    /\ InitStores
    /\ \E j \in Jobs :
          rt = [job |-> j,
                pc |-> [t \in Tasks |-> "start"],
                queue |-> <<>>,
                step |-> [t \in Tasks |-> 0],
                tx |-> <<>>,
                out |-> [t \in Tasks |-> [ok |-> FALSE, value |-> <<>>, seen |-> <<>>]],
                trace |-> <<>>,
                committed |-> {KnowledgeBase_new}]

\* the statements of the closure of create_message, and of channel_messages
Statements(t) ==
    IF t \in Writers
    THEN <<"BEGIN", "UPSERT channels", "INSERT OR REPLACE messages",
           "INSERT messages_embeddings", "COMMIT">>
    ELSE <<"SELECT messages">>

\* what one statement of create_message's closure does to the database
ExecuteStatement(db, msg, k) ==
    CASE k = 2 -> UpsertChannel(db, msg.channel_id, ChannelType_as_str(msg.channel_type),
                                Source_as_str(msg.source))
      [] k = 3 -> [db EXCEPT !.messages = InsertOrReplaceRow(@, Message_column_values(msg))]
      [] k = 4 -> [db EXCEPT !.messages.ann =
                      Vec0Insert(@, db.messages.seq, Blobs[Embed(msg.content)])]
      [] OTHER -> db

\* a bounded channel of one slot whose sender overwrites
Enqueue_Overwrite(queue, t) == <<t>>

\* the unbounded channel of Connection::call
Enqueue(queue, t) == Append(queue, t)

\* the statements of all received closures taken in any order
Runnable_Interleaved(r) == {t \in Tasks : r.pc[t] \in {"queued", "running"}}

\* the connection's thread: the closure it is running, else the next message
\* of the channel
Runnable(r) ==
    IF \E t \in Tasks : r.pc[t] = "running"
    THEN {t \in Tasks : r.pc[t] = "running"}
    ELSE IF r.queue # <<>> THEN {Head(r.queue)} ELSE {}

Without(queue, t) == SelectSeq(queue, LAMBDA x : x # t)

\* create_message: EmbeddingsBuilder::build().await
AwaitEmbeddings(t) ==
    /\ t \in Writers /\ rt.pc[t] = "start"
    /\ rt' = [rt EXCEPT !.pc[t] = "embedded"]
    /\ UNCHANGED <<vs, kb, now, ret, used>>

\* self.conn.call(closure): the closure is sent to the connection's thread
Send(t) ==
    /\ rt.pc[t] = (IF t \in Writers THEN "embedded" ELSE "start")
    /\ rt' = [rt EXCEPT !.pc[t] = "queued", !.queue = Enqueue(@, t)]
    /\ UNCHANGED <<vs, kb, now, ret, used>>

\* the connection's thread executes the next statement of a closure; the
\* closure's result goes back to its caller after the last one
Run(t) ==
    /\ t \in Runnable(rt)
    /\ LET k     == rt.step[t] + 1
           stmt  == Statements(t)[k]
           entry == [task |-> t, stmt |-> stmt, in_tx |-> rt.tx # <<>>]
           last  == k = Len(Statements(t))
           \* BEGIN on a connection that has a transaction open is an error
           nested == stmt = "BEGIN" /\ rt.tx # <<>>
       IN  IF t \in Readers
           THEN /\ \E rows \in channel_messages_rows(kb, rt.job[t].channel_id,
                                                     rt.job[t].limit) :
                      rt' = [rt EXCEPT !.pc[t] = "done", !.step[t] = k,
                                       !.queue = Without(@, t),
                                       !.out[t] = [ok |-> TRUE, value |-> Project(rows),
                                                   seen |-> <<kb>>],
                                       !.trace = Append(@, entry)]
                /\ kb' = kb
           ELSE IF nested
           THEN /\ rt' = [rt EXCEPT !.pc[t] = "done", !.step[t] = k,
                                    !.queue = Without(@, t),
                                    !.out[t] = [ok |-> FALSE, value |-> <<>>, seen |-> <<>>],
                                    !.trace = Append(@, entry)]
                /\ kb' = kb
           ELSE /\ kb' = ExecuteStatement(kb, rt.job[t], k)
                /\ rt' = [rt EXCEPT !.pc[t] = IF last THEN "done" ELSE "running",
                                    !.step[t] = k,
                                    !.queue = Without(@, t),
                                    !.tx = IF stmt = "BEGIN" THEN <<kb>>
                                           ELSE IF stmt = "COMMIT" THEN <<>> ELSE @,
                                    !.out[t] = IF last
                                               THEN [ok |-> TRUE, value |-> <<kb.messages.seq>>,
                                                     seen |-> <<>>]
                                               ELSE @,
                                    !.trace = Append(@, entry),
                                    !.committed = IF stmt = "COMMIT" THEN @ \cup {kb} ELSE @]
    /\ UNCHANGED <<vs, now, ret, used>>

NextConc == \E t \in Tasks : AwaitEmbeddings(t) \/ Send(t) \/ Run(t)

\* every caller is polled and the connection's thread keeps running
SpecConc == InitConc /\ [][NextConc]_vars /\ WF_vars(NextConc)

Init == InitStores /\ rt = NoCallers

Next == CreateMessage \/ KbAddDocuments \/ ChannelMessages \/ KnowledgeBaseNew

Spec == Init /\ [][Next]_vars

\* the later snapshot of the knowledge base (knowledge/store.rs)
NextStore == StoreCreateMessage \/ Tick

SpecStore == Init /\ [][NextStore]_vars

NextVS == AddDocuments \/ SqliteStoreNew

SpecVS == Init /\ [][NextVS]_vars

\* the store as the agent uses it: embedded documents in, similarity queries out
NextIndex == AddSimpleDocuments \/ TopN \/ TopNIds

SpecIndex == Init /\ [][NextIndex]_vars

\* the dimension tables of knowledge.rs, with the clock
NextDim == CreateUser \/ CreateChannel \/ CreateMessageNow \/ Tick

SpecDim == Init /\ [][NextDim]_vars

\* the accounts table of knowledge/store.rs, with the clock
NextStoreUsers == StoreCreateUser \/ Tick

SpecStoreUsers == Init /\ [][NextStoreUsers]_vars

\* the channels table of knowledge/store.rs, with the clock
NextStoreChannels == StoreCreateChannel \/ Tick

SpecStoreChannels == Init /\ [][NextStoreChannels]_vars

(***************************************************************************)
(***************************************************************************)
(* Claims about KnowledgeBase (checked under Spec, the snapshot of         *)
(* knowledge.rs, and under SpecStore, the snapshot of knowledge/store.rs). *)
(***************************************************************************)
IsCreateMessage(r) == r.op = "create_message"

IsChannelMessages(r) == r.op = "channel_messages"

\* the instant a created_at text stands for
ParseTime(text) == CHOOSE t \in Times : to_rfc3339(t) = text

Min(a, b) == IF a < b THEN a ELSE b

\* C1: a create_message call that fails inside its transaction (at BEGIN, at
\* the channel upsert, at the message row, at the embedding row or at COMMIT)
\* leaves channels, messages and messages_embeddings exactly as they were.
C1_CreateMessageRollback ==
    [][(IsCreateMessage(ret') /\ ~ret'.ok)
         => /\ kb'.channels = kb.channels
            /\ kb'.chan_seq = kb.chan_seq
            /\ kb'.messages = kb.messages
            /\ kb' = kb]_vars

\* a call that failed at the embedding row, after the channel upsert and the
\* message row had been executed, on a knowledge base that held rows already
C1_Witness ==
    /\ IsCreateMessage(ret) /\ ~ret.ok
    /\ ret.log = <<"BEGIN", "UPSERT channels", "INSERT OR REPLACE messages",
                   "INSERT messages_embeddings">>
    /\ kb.channels # {} /\ kb.messages.rows # {}

\* C6: after any sequence of successful create_message calls there is exactly
\* one channels row for each channel_id used and exactly one messages row for
\* each message id used.
C6_OneRowPerKey ==
    /\ \A c \in used.channels : Cardinality({r \in kb.channels : r.channel_id = c}) = 1
    /\ \A m \in used.messages : Cardinality({r \in kb.messages.rows : r.id = m}) = 1

\* three committed calls: two message ids, one of them written twice, all in
\* one channel
C6_Witness ==
    /\ used.channels = {"c1"} /\ Cardinality(used.messages) = 2
    /\ kb.messages.seq = 3
    /\ Cardinality(kb.channels) = 1 /\ Cardinality(kb.messages.rows) = 2

\* C7 (as claimed): every messages row's channel_id has a channels row, the
\* channel having been upserted before the message row in the same transaction.
C7_MessageChannelExists ==
    \A m \in kb.messages.rows : \E c \in kb.channels : c.channel_id = m.channel_id

\* C8: channel_messages(channel_id, limit) returns the (source_id, content)
\* pairs of distinct messages rows of that channel only, in an order in which
\* an earlier entry was created no earlier than a later one, and the first
\* entry is a most recently created message of the channel.
C8_ChannelMessagesOrder ==
    IsChannelMessages(ret) =>
       LET rows == ChannelRows(kb, ret.arg.channel_id)
       IN  \E s \in [1..Len(ret.value) -> rows] :
              /\ ret.value = Project(s)
              /\ \A i, j \in DOMAIN s : i # j => s[i] # s[j]
              /\ \A i, j \in DOMAIN s :
                    i < j => ParseTime(s[i].created_at) >= ParseTime(s[j].created_at)
              /\ Len(s) >= 1 =>
                    \A r \in rows : ParseTime(s[1].created_at) >= ParseTime(r.created_at)

\* two entries of different creation times returned, the older one inserted
\* last, while the other channel holds a message too
C8_Witness ==
    /\ IsChannelMessages(ret) /\ Len(ret.value) = 2 /\ ret.value[1] # ret.value[2]
    /\ \E r1, r2 \in ChannelRows(kb, ret.arg.channel_id) :
          /\ r1.rowid < r2.rowid
          /\ ParseTime(r1.created_at) > ParseTime(r2.created_at)
          /\ ret.value = Project(<<r1, r2>>)
    /\ \E r \in kb.messages.rows : r.channel_id # ret.arg.channel_id

\* the row of the channel that was inserted last
LastInserted(rows) == CHOOSE r \in rows : \A q \in rows : q.rowid <= r.rowid

\* created_at grows with the order of insertion
IncreasingTimes(rows) ==
    \A r1, r2 \in rows :
       r1.rowid < r2.rowid => ParseTime(r1.created_at) < ParseTime(r2.created_at)

\* C9 (as claimed): for a channel holding m messages, channel_messages returns
\* exactly min(limit, m) entries and the first entry is the message inserted last.
C9_MinLimitLastInserted ==
    IsChannelMessages(ret) =>
       LET rows == ChannelRows(kb, ret.arg.channel_id)
       IN  /\ Len(ret.value) = Min(ret.arg.limit, Cardinality(rows))
           /\ Len(ret.value) >= 1 => ret.value[1] = Project(<<LastInserted(rows)>>)[1]

\* C9 (amended): with limit >= 0 the call returns exactly min(limit, m)
\* entries; when the channel's messages were inserted with strictly increasing
\* created_at, the first entry returned is the message inserted last.
C9_MinLimitLatestCreated ==
    IsChannelMessages(ret) =>
       LET rows == ChannelRows(kb, ret.arg.channel_id)
       IN  /\ ret.arg.limit >= 0 =>
                 Len(ret.value) = Min(ret.arg.limit, Cardinality(rows))
           /\ (IncreasingTimes(rows) /\ Len(ret.value) >= 1) =>
                 ret.value[1] = Project(<<LastInserted(rows)>>)[1]

\* limit 1 on a channel of two messages inserted with increasing created_at:
\* the one entry is the later message, and not the earlier one
C9_Witness ==
    /\ IsChannelMessages(ret) /\ ret.arg.limit = 1
    /\ LET rows == ChannelRows(kb, ret.arg.channel_id)
       IN  /\ Cardinality(rows) = 2 /\ IncreasingTimes(rows)
           /\ ret.value = Project(<<LastInserted(rows)>>)
           /\ \A r \in rows \ {LastInserted(rows)} : Project(<<r>>) # ret.value

\* C10: when the embedding model fails, create_message and add_documents
\* return the error without a single statement sent to the database, and
\* every table is left unchanged.
C10_ModelErrorBeforeDatabase ==
    [][(ret'.op \in {"create_message", "add_documents"} /\ ret'.error = "ModelError")
         => /\ ~ret'.ok
            /\ ret'.log = <<>>
            /\ kb' = kb]_vars

\* add_documents failed on the model, on a knowledge base that holds
\* documents and messages
C10_Witness ==
    /\ ret.op = "add_documents" /\ ret.error = "ModelError" /\ ret.log = <<>>
    /\ kb.documents.rows # {} /\ kb.messages.rows # {}
(***************************************************************************)
(* Claims about concurrent callers (checked under SpecConc).               *)
(***************************************************************************)
AllDone == \A t \in Tasks : rt.pc[t] = "done"

\* the database after create_message(first) and then create_message(second),
\* each run alone
OneAfterTheOther(first, second) ==
    create_message(create_message(KnowledgeBase_new, first, TRUE, 0).db, second, TRUE, 0).db

\* C11: two create_message calls issued concurrently for different channels
\* and different message ids both complete successfully in the end, and from
\* then on both channels rows and both messages rows exist: the database is
\* the one that the two calls leave when run one after the other, in one of
\* the two orders.
C11_BothCommit ==
    <>[](/\ AllDone
         /\ \A w \in Writers :
               /\ rt.out[w].ok
               /\ \E c \in kb.channels : c.channel_id = rt.job[w].channel_id
               /\ \E m \in kb.messages.rows :
                     m.id = rt.job[w].id /\ m.channel_id = rt.job[w].channel_id
         /\ Cardinality(kb.channels) = 2 /\ Cardinality(kb.messages.rows) = 2
         /\ kb \in {OneAfterTheOther(rt.job.w1, rt.job.w2),
                    OneAfterTheOther(rt.job.w2, rt.job.w1)})

\* both calls have returned, the transaction of w2 having run first
C11_Witness ==
    /\ rt # NoCallers /\ AllDone
    /\ rt.out.w1.ok /\ rt.out.w2.ok
    /\ rt.out.w2.value = <<1>> /\ rt.out.w1.value = <<2>>
    /\ kb = OneAfterTheOther(rt.job.w2, rt.job.w1)
    /\ kb # OneAfterTheOther(rt.job.w1, rt.job.w2)

\* C12: the statements the connection executes for one closure are never
\* separated by a statement of another caller, no SELECT of channel_messages
\* runs while a transaction is open, and what channel_messages reads is a
\* state that had been committed.
C12_NoInterleaving ==
    /\ \A i, j, k \in DOMAIN rt.trace :
          (i < j /\ j < k /\ rt.trace[i].task = rt.trace[k].task)
             => rt.trace[j].task = rt.trace[i].task
    /\ \A i \in DOMAIN rt.trace :
          rt.trace[i].stmt = "SELECT messages" => ~rt.trace[i].in_tx
    /\ \A t \in DOMAIN rt.pc :
          (t \in Readers /\ rt.pc[t] = "done") => rt.out[t].seen[1] \in rt.committed

\* the read ran between the two transactions, all three closures having been
\* in the channel together, and returned the one message committed by then
C12_Witness ==
    /\ rt # NoCallers /\ AllDone
    /\ Len(rt.trace) = 11 /\ rt.trace[6].stmt = "SELECT messages"
    /\ Len(rt.out.r.value) = 1
    /\ Cardinality(ChannelRows(kb, rt.job.r.channel_id)) = 1


(* Claims about SqliteStore::add_documents (checked under SpecVS).         *)
(***************************************************************************)
Range(f) == {f[i] : i \in DOMAIN f}

IsAddDocuments(r) == r.op = "add_documents"

\* the record of the batch that wrote id last
LastWriteOf(batch, id) ==
    batch[CHOOSE i \in 1..Len(batch) :
            batch[i].id = id /\ \A j \in (i + 1)..Len(batch) : batch[j].id # id]

RowsOf(db, id) == {r \in db.documents : r.doc_id = id}

EmbeddingRowsOf(db, id) ==
    {e \in db.embeddings : \E d \in RowsOf(db, id) : e.rowid = d.id}

\* C13: running the initialisation again (SqliteStore::new,
\* KnowledgeBase::new) on a database that was initialised before returns
\* success and leaves every table, row and embedding as it was.
C13_InitIdempotent ==
    [][ret'.op = "new" => (ret'.ok /\ vs' = vs /\ kb' = kb)]_vars

\* the store was initialised again while it held documents and embeddings,
\* one of them an embedding of a replaced row
C13_Witness ==
    /\ ret.op = "new" /\ Len(ret.log) = 3
    /\ Cardinality(vs.documents) = 2 /\ Cardinality(vs.embeddings) = 3

\* C2: a batch write that fails at any statement (an embedding row of any
\* record included) leaves the documents table, its row count and the
\* embeddings table as they were before the call.
C2_BatchAllOrNothing ==
    [][(IsAddDocuments(ret') /\ ~ret'.ok)
         => /\ vs'.documents = vs.documents
            /\ vs'.embeddings = vs.embeddings
            /\ Cardinality(vs'.documents) = Cardinality(vs.documents)]_vars

\* the second record's embedding row is refused after the first record and
\* the second record's relational row were written
C2_Witness ==
    /\ IsAddDocuments(ret) /\ ~ret.ok
    /\ ret.log = <<"BEGIN", "INSERT OR REPLACE documents", "INSERT embeddings",
                   "INSERT OR REPLACE documents", "INSERT embeddings">>
    /\ Len(ret.arg[2].embeddings[1]) # EmbeddingDim

\* C3 (as claimed): every row of the embeddings table has the rowid of an
\* existing documents row.
C3_NoOrphanEmbeddings ==
    \A e \in vs.embeddings : \E d \in vs.documents : d.id = e.rowid

\* C4: after a committed write, each declared id of the batch has exactly one
\* documents row, holding the column values of its last write, and the
\* embeddings joined to that row are exactly the (f32) embeddings of that
\* write; nothing of an earlier write of the id is reachable.
C4_SecondWriteReplaces ==
    (IsAddDocuments(ret) /\ ret.ok) =>
       \A id \in {d.id : d \in Range(ret.arg)} :
          LET d == LastWriteOf(ret.arg, id)
          IN  /\ Cardinality(RowsOf(vs, id)) = 1
              /\ \A r \in RowsOf(vs, id) : r.document = to_string(d.document)
              /\ get_document(vs, id) = d.document
              /\ get_document_embeddings(vs, id)
                   = {serialize_embedding(e) : e \in Range(d.embeddings)}

\* id X was written with E1 by the first call and with another E2 by the second
C4_Witness ==
    /\ IsAddDocuments(ret) /\ ret.ok /\ Len(ret.arg) = 1
    /\ vs.seq = 2 /\ Cardinality(vs.documents) = 1
    /\ \E e \in vs.embeddings :
          e.rowid = 1 /\ e.embedding # EmbeddingBlob(ret.arg[1].embeddings[1])
    /\ get_document_embeddings(vs, ret.arg[1].id)
          = {serialize_embedding(ret.arg[1].embeddings[1])}

WellFormed(batch) ==
    \A d \in Range(batch) :
       Len(d.embeddings) >= 1 /\ \A e \in Range(d.embeddings) : Len(e) = EmbeddingDim

\* C5 (as claimed): a batch write of records that each carry k >= 1
\* embeddings of the store's width, meeting no database error, succeeds and
\* commits exactly k embedding rows for each record, keyed to the id of the
\* record's documents row.
C5_OneRowPerEmbedding ==
    (IsAddDocuments(ret) /\ ret.fault = 0 /\ WellFormed(ret.arg)) =>
       /\ ret.ok
       /\ \A id \in {d.id : d \in Range(ret.arg)} :
             Cardinality(EmbeddingRowsOf(vs, id))
                = Len(LastWriteOf(ret.arg, id).embeddings)

(***************************************************************************)
(* Claims about SqliteVectorIndex::top_n / top_n_ids (checked under        *)
(* SpecIndex).                                                             *)
(***************************************************************************)
IsTopN(r) == r.op = "top_n"

IsQuery(r) == r.op \in {"top_n", "top_n_ids"}

\* the f32 query vector of a call
QueryVec(a) == serialize_embedding(embed_document(a.dims, a.query))

\* the embeddings rows that belong to a documents row, with the row's doc_id
\* and the distance to the query of a call
StoredRecords(db, a) ==
    UNION {{[doc_id |-> d.doc_id,
             distance |-> distance_l2_squared(StoredVectors[e.embedding], QueryVec(a))] :
               e \in {x \in db.embeddings : x.rowid = d.id}} : d \in db.documents}

\* C15: a top_n or top_n_ids whose query vector has not the width of the
\* store returns an error and no list, however vec0 orders its rows.
C15_QueryWidthMismatchFails ==
    (IsQuery(ret) /\ ret.arg.dims # EmbeddingDim) =>
       /\ ~ret.ok
       /\ ret.value = NULL
       /\ \A tie \in Ties :
             /\ ~top_n(vs, [ret.arg EXCEPT !.tie = tie]).ok
             /\ ~top_n_ids(vs, [ret.arg EXCEPT !.tie = tie]).ok

\* a query one value too wide was put to a store that holds two documents
C15_Witness ==
    /\ IsTopN(ret) /\ ret.arg.dims = EmbeddingDim + 1 /\ ret.arg.model_ok
    /\ ret.error = "DatastoreError" /\ ret.log = <<"SELECT embeddings">>
    /\ Cardinality(vs.documents) = 2 /\ Cardinality(vs.embeddings) = 2

\* C16: top_n(query, n) returns at most n entries, in non-decreasing order
\* of distance, and no returned entry is farther than a stored embedding
\* whose record is not returned.
C16_NearestFirst ==
    (IsTopN(ret) /\ ret.ok) =>
       /\ Len(ret.value) <= ret.arg.n
       /\ \A i, j \in DOMAIN ret.value :
             i < j => ~DistanceLess(ret.value[j][1], ret.value[i][1])
       /\ \A i \in DOMAIN ret.value :
             \A x \in StoredRecords(vs, ret.arg) :
                (\A j \in DOMAIN ret.value : ret.value[j][2] # x.doc_id)
                   => ~DistanceLess(x.distance, ret.value[i][1])

\* n = 1 on a store of two documents at different distances: the nearer one
\* is returned, the farther one is left out
C16_Witness ==
    /\ IsTopN(ret) /\ ret.ok /\ ret.arg.n = 1 /\ Len(ret.value) = 1
    /\ Cardinality(vs.documents) = 2 /\ Cardinality(vs.embeddings) = 2
    /\ \E x \in StoredRecords(vs, ret.arg) :
          x.doc_id # ret.value[1][2] /\ DistanceLess(ret.value[1][1], x.distance)

\* the matched rows of a call, and those of them that deserialize into T
Matched(db, a) == top_n_ids(db, a).value

Deserializable(db, a) ==
    SelectSeq(Matched(db, a), LAMBDA m : get_document_as(db, m[2], a.T) # DeserErr)

\* C17 (as claimed): when some matched rows do not deserialize into the
\* requested type, top_n still returns success, with exactly the other
\* matched rows, in order.
C17_SkipsUndeserializable ==
    (IsTopN(ret) /\ ret.arg.model_ok /\ ret.arg.dims = EmbeddingDim) =>
       /\ ret.ok
       /\ Len(ret.value) = Len(Deserializable(vs, ret.arg))
       /\ \A i \in DOMAIN ret.value :
             /\ ret.value[i][1] = Deserializable(vs, ret.arg)[i][1]
             /\ ret.value[i][2] = Deserializable(vs, ret.arg)[i][2]

\* C18: on the same store, for the same query and n, top_n_ids returns the
\* (distance, id) pairs of top_n's entries, in the same order, when every
\* matched row deserializes (top_n returned a list).
C18_IdsAgreeWithTopN ==
    (IsTopN(ret) /\ ret.ok) =>
       LET ids == top_n_ids(vs, ret.arg)
       IN  /\ ids.ok
           /\ ids.value = [i \in 1..Len(ret.value) |-> <<ret.value[i][1], ret.value[i][2]>>]

\* top_n returned two entries at different distances, with their records
C18_Witness ==
    /\ IsTopN(ret) /\ ret.ok /\ ret.arg.n = 2 /\ Len(ret.value) = 2
    /\ DistanceLess(ret.value[1][1], ret.value[2][1])
    /\ ret.value[1][3] = ret.arg.query /\ ret.value[2][3] # ret.arg.query
    /\ top_n_ids(vs, ret.arg).value = <<SubSeq(ret.value[1], 1, 2), SubSeq(ret.value[2], 1, 2)>>

\* C19 (as claimed): once a document with content C has been added
\* successfully, top_n(C, 1) returns that document as its only entry, at
\* distance zero, whatever documents of other content the store holds and
\* however vec0 orders rows at equal distance.
C19_SelfNearest ==
    \A r \in vs.documents :
       (\A o \in vs.documents : o.doc_id # r.doc_id => o.document # r.document)
          => \A tie \in Ties :
                LET res == top_n(vs, [query |-> from_str(r.document), dims |-> EmbeddingDim,
                                      model_ok |-> TRUE, n |-> 1, tie |-> tie,
                                      T |-> "String"])
                IN  /\ res.ok
                    /\ res.value = <<<< <<0, 0>>, r.doc_id, from_str(r.document) >>>>

(***************************************************************************)
(* chunk_message (asuka-core/src/clients/discord.rs).  A text is a         *)
(* sequence of one-byte characters; a newline is "\n".  The function       *)
(* calls itself on the rest of the text; one call is one step, and the     *)
(* frame of a call pushes its chunk before the next call is made.          *)
(***************************************************************************)
Chars == {"a", "#", " ", "\n"}

IsWhitespace(c) == c \in {" ", "\n"}

\* str::trim
RECURSIVE trim_start(_)
trim_start(t) == IF t # <<>> /\ IsWhitespace(Head(t)) THEN trim_start(Tail(t)) ELSE t

RECURSIVE trim_end(_)
trim_end(t) ==
    IF t # <<>> /\ IsWhitespace(t[Len(t)]) THEN trim_end(SubSeq(t, 1, Len(t) - 1)) ELSE t

trim(t) == trim_end(trim_start(t))

\* str::split('\n')
RECURSIVE split_newline(_, _)
split_newline(t, line) ==
    IF t = <<>> THEN <<line>>
    ELSE IF Head(t) = "\n" THEN <<line>> \o split_newline(Tail(t), <<>>)
    ELSE split_newline(Tail(t), Append(line, Head(t)))

\* str::lines: the text split at its newlines; a last empty line is not a line
lines(t) ==
    LET parts == split_newline(t, <<>>)
    IN  IF parts[Len(parts)] = <<>> THEN SubSeq(parts, 1, Len(parts) - 1) ELSE parts

\* text.find(line).unwrap_or(text.len()): the byte index of the first
\* occurrence of line in text
find(text, line) ==
    LET hits == {i \in 0..(Len(text) - Len(line)) :
                    SubSeq(text, i + 1, i + Len(line)) = line}
    IN  IF hits = {} THEN Len(text) ELSE CHOOSE i \in hits : \A j \in hits : i <= j

\* the for loop over text.lines().enumerate(), from the line of index i - 1
RECURSIVE FindSplit(_, _, _, _)
FindSplit(text, ls, i, max_length) ==
    IF i > Len(ls) THEN [split_index |-> Len(text), in_heading |-> FALSE]
    ELSE LET line == trim(ls[i])
         IN  IF line = <<>> THEN FindSplit(text, ls, i + 1, max_length)
             ELSE IF line[1] = "#" /\ i - 1 > 0
             THEN [split_index |-> find(text, line), in_heading |-> TRUE]
             ELSE IF find(text, line) + Len(line) > max_length /\ i - 1 > 0
             THEN [split_index |-> find(text, line), in_heading |-> FALSE]
             ELSE FindSplit(text, ls, i + 1, max_length)

\* text.len() < min_chunk_length
BaseCase_Strict(text, min_chunk_length) == Len(text) < min_chunk_length

\* if text.len() <= min_chunk_length { return vec![text.to_string()]; }
BaseCase(text, min_chunk_length) == Len(text) <= min_chunk_length

\* one call of chunk_message: the chunk it pushes, and the text it calls
\* itself on (rest), if it does
chunk_message_call(text, max_length, min_chunk_length) ==
    IF BaseCase(text, min_chunk_length)
    THEN [chunk |-> text, recurse |-> FALSE, rest |-> <<>>]
    ELSE LET f == FindSplit(text, lines(text), 1, max_length)
         IN  IF f.split_index < Len(text)
             THEN LET chunk == trim(SubSeq(text, 1, f.split_index))
                      rest  == SubSeq(text, f.split_index + 1, Len(text))
                      c2    == IF ~f.in_heading
                                  /\ ~(trim(rest) # <<>> /\ trim(rest)[1] = "#")
                               THEN Append(chunk, "\n") ELSE chunk
                      c3    == IF c2 # <<>> /\ c2[Len(c2)] = "\n"
                               THEN SubSeq(c2, 1, Len(c2) - 1) ELSE c2
                  IN  [chunk |-> c3, recurse |-> TRUE, rest |-> trim(rest)]
             ELSE [chunk |-> trim(text), recurse |-> FALSE, rest |-> <<>>]

RECURSIVE TextsOfLen(_)
TextsOfLen(n) ==
    IF n = 0 THEN {<<>>} ELSE {Append(t, c) : t \in TextsOfLen(n - 1), c \in Chars}

Texts == UNION {TextsOfLen(n) : n \in 0..MaxTextLen}

MaxLengths == {1, 2, MaxTextLen}
MinChunkLengths == {0, 2, MaxTextLen}

\* chunk_message(text, max_length, min_chunk_length) is called
InitChunk ==
    /\ \E text \in Texts, max_length \in MaxLengths, min_chunk_length \in MinChunkLengths :
          ret = [op |-> "chunk_message", text |-> text, max_length |-> max_length,
                 min_chunk_length |-> min_chunk_length, arg |-> text, chunks |-> <<>>,
                 returned |-> FALSE]
    /\ vs = SqliteStore_new
    /\ kb = KnowledgeBase_new
    /\ now = 0
    /\ used = [channels |-> {}, messages |-> {}]
    /\ rt = NoCallers

\* the innermost call runs to its push and returns, and with it every frame
ChunkReturn ==
    /\ ~ret.returned
    /\ Len(ret.chunks) < MaxCalls
    /\ LET c == chunk_message_call(ret.arg, ret.max_length, ret.min_chunk_length)
       IN  /\ ~c.recurse
           /\ ret' = [ret EXCEPT !.chunks = Append(@, c.chunk), !.returned = TRUE]
    /\ UNCHANGED <<vs, kb, now, used, rt>>

\* the innermost call pushes its chunk and calls chunk_message(rest.trim(), ..)
ChunkRecurse ==
    /\ ~ret.returned
    /\ Len(ret.chunks) < MaxCalls
    /\ LET c == chunk_message_call(ret.arg, ret.max_length, ret.min_chunk_length)
       IN  /\ c.recurse
           /\ ret' = [ret EXCEPT !.chunks = Append(@, c.chunk), !.arg = c.rest]
    /\ UNCHANGED <<vs, kb, now, used, rt>>

NextChunk == ChunkReturn \/ ChunkRecurse

SpecChunk == InitChunk /\ [][NextChunk]_vars

(***************************************************************************)
(* The serialization round trip on its own: an embedding is cast to f32    *)
(* and written as a blob (add_documents), then the blob is read back in    *)
(* 4-byte chunks (get_document_embeddings).  Bytes are those of a          *)
(* little-endian target.                                                   *)
(***************************************************************************)
\* f64 values of an embedding; 2^24 + 1 and 2^24 + 3 are not f32 values
F64Samples == {0, 1, 2, 3, 255, 256, 65537, 2^23 + 1, 2^24, 2^24 + 1, 2^24 + 2, 2^24 + 3}

RECURSIVE VecsOfLen(_)
VecsOfLen(n) ==
    IF n = 0 THEN {<<>>}
    ELSE {Append(v, x) : v \in VecsOfLen(n - 1), x \in F64Samples}

Embeddings == UNION {VecsOfLen(n) : n \in 0..MaxVecLen}

InitSer ==
    /\ \E v \in Embeddings :
          ret = [op |-> "embedding", arg |-> v, blob |-> <<>>, value |-> <<>>]
    /\ vs = SqliteStore_new
    /\ kb = KnowledgeBase_new
    /\ now = 0
    /\ used = [channels |-> {}, messages |-> {}]
    /\ rt = NoCallers

\* let vec = Self::serialize_embedding(&embedding); ... vec.as_slice().as_bytes().to_vec()
WriteEmbedding ==
    /\ ret.op = "embedding"
    /\ ret' = [ret EXCEPT !.op = "written",
                          !.blob = as_bytes(serialize_embedding(ret.arg))]
    /\ UNCHANGED <<vs, kb, now, used, rt>>

\* bytes.chunks(4).map(|chunk| f32::from_le_bytes(..) as f64).collect()
ReadEmbedding ==
    /\ ret.op = "written"
    /\ ret' = [ret EXCEPT !.op = "read", !.value = deserialize_embedding(ret.blob)]
    /\ UNCHANGED <<vs, kb, now, used, rt>>

NextSer == WriteEmbedding \/ ReadEmbedding

SpecSer == InitSer /\ [][NextSer]_vars

(***************************************************************************)
(* Claims about the embedding serialization (checked under SpecSer).       *)
(***************************************************************************)
\* every value of the vector is a f32 value
Representable(v) == \A i \in DOMAIN v : as_f32(v[i]) = v[i]

\* C20: for every vector v of f32-representable values the stored blob has
\* 4 * Len(v) bytes, and reading it back in 4-byte little-endian chunks
\* gives a vector of the same length that equals v element by element.
C20_RoundTrip ==
    Representable(ret.arg) =>
       /\ ret.op \in {"written", "read"} => Len(ret.blob) = 4 * Len(ret.arg)
       /\ ret.op = "read" =>
             /\ Len(ret.value) = Len(ret.arg)
             /\ \A i \in DOMAIN ret.arg : ret.value[i] = ret.arg[i]

\* a vector of two different f32 values, one of them above 2^24, was
\* written and read back
C20_Witness ==
    /\ ret.op = "read" /\ Representable(ret.arg)
    /\ Len(ret.arg) = 2 /\ ret.arg[1] = 2^24 + 2 /\ ret.arg[2] = 255
    /\ ret.blob = <<1, 0, 128, 75, 0, 0, 127, 67>>
    /\ ret.value = ret.arg

(***************************************************************************)
(* Claims about the dimension tables (checked under SpecDim, the snapshot  *)
(* of knowledge.rs with the clock; the same formulas read on the snapshot  *)
(* of knowledge/store.rs under SpecStoreUsers and SpecStoreChannels).      *)
(***************************************************************************)
\* a step that is a call of op (the clock does not move during a call)
IsCallOf(r, op, t, t2) == r.op = op /\ t2 = t

\* the source_id a create_user call gives (knowledge.rs gives none)
AccountKey(a) == IF "source_id" \in DOMAIN a THEN a.source_id ELSE NULL

\* C21 (as claimed): create_user is an insert-or-update-timestamp upsert
\* keyed by source_id: every call succeeds and leaves one accounts row for
\* its source_id; a call for a source_id that has a row returns that row's
\* id and changes only its updated_at; a call for a new source_id inserts
\* a row with the call's name and source and returns its id.
C21_CreateUserUpsert ==
    [][IsCallOf(ret', "create_user", now, now') =>
         LET a   == ret'.arg
             old == {r \in kb.accounts : r.source_id = AccountKey(a)}
         IN  /\ ret'.ok
             /\ Cardinality({r \in kb'.accounts : r.source_id = AccountKey(a)}) = 1
             /\ old # {} =>
                   \E r \in old :
                      /\ ret'.value = r.id
                      /\ kb'.accounts = (kb.accounts \ {r}) \cup {[r EXCEPT !.updated_at = now]}
             /\ old = {} =>
                   \E r \in kb'.accounts :
                      /\ ret'.value = r.id /\ r.name = a.name /\ r.source = a.source
                      /\ kb'.accounts = kb.accounts \cup {r}]_vars

\* a second create_user for u1, a second later and under another name and
\* source, returned the id of the first and changed updated_at only
C21_StoreWitness ==
    /\ ret.op = "create_user" /\ ret.ok /\ ret.value = 1 /\ now = 1
    /\ ret.arg = [name |-> "bob", source |-> "telegram", source_id |-> "u1"]
    /\ \E r \in kb.accounts :
          /\ r.id = 1 /\ r.source_id = "u1" /\ r.name = "alice" /\ r.source = "discord"
          /\ r.created_at = 0 /\ r.updated_at = 1
    /\ Cardinality(kb.accounts) = 2

\* C22: a create_message for a channel_id that has a channels row changes
\* only that row's updated_at (id, channel_type, source, name and created_at
\* stay, whatever the message carries); for a new channel_id it creates a
\* row with the message's channel_type and source.
C22_ChannelUpsertFrame ==
    [][(IsCallOf(ret', "create_message", now, now') /\ ret'.ok) =>
         LET msg == ret'.arg
             old == {c \in kb.channels : c.channel_id = msg.channel_id}
         IN  /\ old # {} =>
                   \E c \in old :
                      kb'.channels = (kb.channels \ {c}) \cup {[c EXCEPT !.updated_at = now]}
             /\ old = {} =>
                   \E c \in kb'.channels :
                      /\ c.channel_id = msg.channel_id
                      /\ c.channel_type = ChannelType_as_str(msg.channel_type)
                      /\ c.source = Source_as_str(msg.source)
                      /\ c.id \notin {x.id : x \in kb.channels}
                      /\ kb'.channels = kb.channels \cup {c}]_vars

\* a direct message was stored, a second later, in a channel that a text
\* message had created: the row kept its type and got a new updated_at
C22_Witness ==
    /\ ret.op = "create_message" /\ ret.ok /\ now = 1
    /\ ret.arg.channel_type = "DirectMessage" /\ ret.arg.channel_id = "c1"
    /\ \E c \in kb.channels :
          /\ c.channel_id = "c1" /\ c.channel_type = "text" /\ c.id = 1
          /\ c.created_at = 0 /\ c.updated_at = 1
    /\ Cardinality(kb.channels) = 1 /\ Cardinality(kb.messages.rows) = 2

\* C25 (as claimed): create_channel is an upsert keyed by channel_id: a call
\* for a new channel_id inserts a row and returns its id; a call for a
\* channel_id that has a row succeeds, returns that row's id, leaves one row
\* for the channel_id, keeps channel_type and source, replaces name only
\* when a non-null name is passed, and refreshes updated_at.
C25_CreateChannelUpsert ==
    [][IsCallOf(ret', "create_channel", now, now') =>
         LET a   == ret'.arg
             old == {c \in kb.channels : c.channel_id = a.channel_id}
         IN  /\ ret'.ok
             /\ Cardinality({c \in kb'.channels : c.channel_id = a.channel_id}) = 1
             /\ old # {} =>
                   \E c \in old :
                      /\ ret'.value = c.id
                      /\ kb'.channels =
                            (kb.channels \ {c})
                               \cup {[c EXCEPT !.name = IF a.name # NULL THEN a.name ELSE c.name,
                                               !.updated_at = now]}
             /\ old = {} =>
                   \E c \in kb'.channels :
                      /\ ret'.value = c.id /\ c.channel_id = a.channel_id
                      /\ c.channel_type = a.channel_type /\ c.name = a.name
                      /\ kb'.channels = kb.channels \cup {c}]_vars

\* a second create_channel for c1 with no name and another type and source
\* returned the id of the first and kept type, source and name
C25_StoreWitness ==
    /\ ret.op = "create_channel" /\ ret.ok /\ ret.value = 1 /\ now = 1
    /\ ret.arg = [channel_id |-> "c1", channel_type |-> "voice", name |-> NULL,
                  source |-> "telegram"]
    /\ \E c \in kb.channels :
          /\ c.id = 1 /\ c.channel_id = "c1" /\ c.channel_type = "text"
          /\ c.source = "discord" /\ c.name = "general"
          /\ c.created_at = 0 /\ c.updated_at = 1

(***************************************************************************)
(* Claims about the write path as a whole (checked under Spec; the         *)
(* formula of C23 also reads on SqliteStore::add_documents under SpecVS).  *)
(***************************************************************************)
\* how many times a transaction was begun during the call
Attempts(log) == Cardinality({i \in DOMAIN log : log[i] = "BEGIN"})

\* the database reported an error of its own (lock, busy) at a statement
\* the call had reached
DatabaseFaultHit(r) == r.fault > 0 /\ Len(r.log) >= r.fault

\* C23: create_message and add_documents begin their transaction at most
\* once per call; when the database reports a transient error at one of the
\* call's statements, no further statement runs, the call returns an error
\* and the stored state is what it was before the call.
C23_NoRetry ==
    [][(ret'.op \in {"create_message", "add_documents"} /\ ret' # ret) =>
          /\ Attempts(ret'.log) <= 1
          /\ DatabaseFaultHit(ret') =>
                /\ ~ret'.ok
                /\ ret'.error \in {"DatabaseError", "DatastoreError"}
                /\ Len(ret'.log) = ret'.fault
                /\ kb' = kb /\ vs' = vs]_vars

\* the database failed at the INSERT of a message's embedding, after the
\* channel upsert and the message row of the same transaction, on a store
\* that held one message: one attempt, an error, and the store as it was
C23_Witness ==
    /\ ret.op = "create_message" /\ ~ret.ok /\ ret.error = "DatabaseError"
    /\ ret.fault = 4
    /\ ret.log = <<"BEGIN", "UPSERT channels", "INSERT OR REPLACE messages",
                   "INSERT messages_embeddings">>
    /\ Cardinality(kb.messages.rows) = 1 /\ Cardinality(kb.messages.ann) = 1
    /\ Cardinality(kb.channels) = 1 /\ kb.messages.seq = 1

\* C24: a successful create_message returns the row id generated for the
\* message row it wrote, and the message's embedding rows are keyed by that
\* id; after a batch write the store's last generated row id (what the
\* batch write returns) is that of the last record of the batch.
C24_ReturnsGeneratedRowId ==
    /\ (IsCreateMessage(ret) /\ ret.ok) =>
          /\ \E r \in kb.messages.rows : r.id = ret.arg.id /\ r.rowid = ret.value
          /\ \A r \in kb.messages.rows : r.id = ret.arg.id => r.rowid = ret.value
          /\ \A r \in kb.messages.rows : r.rowid <= ret.value
          /\ {a.embedding : a \in {x \in kb.messages.ann : x.rowid = ret.value}}
                = {Blobs[Embed(ret.arg.content)]}
    /\ (ret.op = "add_documents" /\ ret.ok /\ ret.arg # <<>>) =>
          \E r \in kb.documents.rows :
             r.id = ret.arg[Len(ret.arg)].id /\ r.rowid = kb.documents.seq

\* the third message stored, in a channel that already existed: the call
\* returned 3, the row id of the message, not 1, the id of its channel
C24_Witness ==
    /\ IsCreateMessage(ret) /\ ret.ok /\ ret.value = 3
    /\ Cardinality(kb.channels) = 1
    /\ \E r \in kb.messages.rows : r.id = ret.arg.id /\ r.rowid = 3
    /\ \E a \in kb.messages.ann : a.rowid = 3

(***************************************************************************)
(* Claims about chunk_message (checked under SpecChunk).                   *)
(***************************************************************************)
\* the lines of a text that are not blank, trimmed, in order
NonBlankLines(t) ==
    SelectSeq([i \in DOMAIN lines(t) |-> trim(lines(t)[i])], LAMBDA l : l # <<>>)

C28_WholeLinesOnce ==
    (ret.op = "chunk_message" /\ ret.returned
       /\ Len(ret.text) > ret.min_chunk_length /\ Len(lines(ret.text)) > 1) =>
       Concat([i \in DOMAIN ret.chunks |-> NonBlankLines(ret.chunks[i])])
          = NonBlankLines(ret.text)

\* C29 (as claimed): every recursive call of chunk_message is made on a
\* text strictly shorter than the text of the call that makes it.
C29_RemainderShrinks ==
    [][(ret.op = "chunk_message" /\ ~ret'.returned /\ ret' # ret)
          => Len(ret'.arg) < Len(ret.arg)]_vars

(***************************************************************************)
(* TwitterClient::build_conversation_thread (clients/twitter.rs).  A tweet *)
(* is its id; replied_to gives, for each tweet, the id its RepliedTo       *)
(* reference names (0: it has none).  The references are whatever the API  *)
(* returns, a cycle included.  One iteration of the while loop, with its   *)
(* get_tweet(..).send().await, is one step.                                *)
(***************************************************************************)
TweetIds == {1, 2, 3}

ReplyGraphs == [TweetIds -> TweetIds \cup {0}]

Reverse(seq) == [i \in 1..Len(seq) |-> seq[Len(seq) + 1 - i]]

\* if depth > MAX_HISTORY_TWEETS { break; }
DepthReached_Late(depth) == depth > MAX_HISTORY_TWEETS

\* if depth >= MAX_HISTORY_TWEETS { break; }
DepthReached(depth) == depth >= MAX_HISTORY_TWEETS

\* build_conversation_thread(tweet) is called: thread is empty,
\* current_tweet is Some(tweet), depth is 0
InitThread ==
    /\ \E tweet \in TweetIds, replied_to \in ReplyGraphs :
          ret = [op |-> "build_conversation_thread", tweet |-> tweet,
                 replied_to |-> replied_to, thread |-> <<>>, current_tweet |-> <<tweet>>,
                 depth |-> 0, fetch_failed |-> FALSE, returned |-> FALSE, ok |-> FALSE,
                 value |-> <<>>]
    /\ vs = SqliteStore_new
    /\ kb = KnowledgeBase_new
    /\ now = 0
    /\ used = [channels |-> {}, messages |-> {}]
    /\ rt = NoCallers

\* thread.reverse(); Ok(thread)
ReturnThread(r, thread) ==
    [r EXCEPT !.thread = thread, !.returned = TRUE, !.ok = TRUE, !.value = Reverse(thread)]

\* an iteration that ends the loop without a fetch: the depth is reached, or
\* the tweet has no RepliedTo reference
ThreadBreak ==
    /\ ~ret.returned /\ ret.current_tweet # <<>>
    /\ LET tweet  == ret.current_tweet[1]
           thread == Append(ret.thread, tweet)
       IN  /\ DepthReached(ret.depth) \/ ret.replied_to[tweet] = 0
           /\ ret' = ReturnThread(ret, thread)
    /\ UNCHANGED <<vs, kb, now, used, rt>>

\* an iteration whose get_tweet answers with the parent tweet
ThreadFetchParent ==
    /\ ~ret.returned /\ ret.current_tweet # <<>>
    /\ LET tweet  == ret.current_tweet[1]
           thread == Append(ret.thread, tweet)
       IN  /\ ~DepthReached(ret.depth) /\ ret.replied_to[tweet] # 0
           /\ ret' = [ret EXCEPT !.thread = thread,
                                 !.current_tweet = <<ret.replied_to[tweet]>>,
                                 !.depth = @ + 1]
    /\ UNCHANGED <<vs, kb, now, used, rt>>

\* an iteration whose get_tweet answers without data: current_tweet is None
\* and the while let ends
ThreadFetchNoData ==
    /\ ~ret.returned /\ ret.current_tweet # <<>>
    /\ LET tweet  == ret.current_tweet[1]
           thread == Append(ret.thread, tweet)
       IN  /\ ~DepthReached(ret.depth) /\ ret.replied_to[tweet] # 0
           /\ ret' = [ReturnThread(ret, thread) EXCEPT !.current_tweet = <<>>,
                                                       !.depth = @ + 1]
    /\ UNCHANGED <<vs, kb, now, used, rt>>

\* an iteration whose get_tweet fails: the error is logged and the loop ends
ThreadFetchError ==
    /\ ~ret.returned /\ ret.current_tweet # <<>>
    /\ LET tweet  == ret.current_tweet[1]
           thread == Append(ret.thread, tweet)
       IN  /\ ~DepthReached(ret.depth) /\ ret.replied_to[tweet] # 0
           /\ ret' = [ReturnThread(ret, thread) EXCEPT !.fetch_failed = TRUE]
    /\ UNCHANGED <<vs, kb, now, used, rt>>

NextThread == ThreadBreak \/ ThreadFetchParent \/ ThreadFetchNoData \/ ThreadFetchError

\* the future is polled to its end and every get_tweet answers
SpecThread == InitThread /\ [][NextThread]_vars /\ WF_vars(NextThread)

(***************************************************************************)
(* Claims about build_conversation_thread (checked under SpecThread).      *)
(***************************************************************************)
\* the thread a call returned is a chain of RepliedTo references that ends
\* in the mentioned tweet
IsReplyChain(r) ==
    /\ r.value # <<>>
    /\ r.value[Len(r.value)] = r.tweet
    /\ \A i \in 1..(Len(r.value) - 1) : r.replied_to[r.value[i + 1]] = r.value[i]

\* C30: build_conversation_thread always returns, also when the references
\* form a cycle; it returns Ok with at most MAX_HISTORY_TWEETS + 1 tweets,
\* each the parent of the next and the mentioned tweet last, also when a
\* fetch of a parent failed.
C30_ThreadTerminatesBounded ==
    <>[](/\ ret.returned /\ ret.ok
         /\ Len(ret.value) <= MAX_HISTORY_TWEETS + 1
         /\ IsReplyChain(ret))

\* a walk round a cycle of two tweets stopped by the depth: the thread has
\* MAX_HISTORY_TWEETS + 1 tweets and a tweet occurs in it twice
C30_Witness ==
    /\ ret.op = "build_conversation_thread" /\ ret.returned /\ ~ret.fetch_failed
    /\ ret.replied_to[1] = 2 /\ ret.replied_to[2] = 1 /\ ret.tweet = 1
    /\ Len(ret.value) = MAX_HISTORY_TWEETS + 1 /\ ret.depth = MAX_HISTORY_TWEETS
    /\ \E i, j \in DOMAIN ret.value : i < j /\ ret.value[i] = ret.value[j]
    /\ IsReplyChain(ret)

\* the fetch of the second parent failed: the call returned Ok with the two
\* tweets it had
C30_WitnessFetchFailed ==
    /\ ret.op = "build_conversation_thread" /\ ret.returned /\ ret.fetch_failed
    /\ ret.ok /\ ret.tweet = 1 /\ ret.value = <<2, 1>> /\ ret.replied_to[2] = 3

(***************************************************************************)
(* EventHandler::message of DiscordClient (clients/discord.rs).  ret is    *)
(* the handler's frame: the event, the await it stands before (pc), the    *)
(* awaits it has made (trace) and what it sent.  One await is one step.    *)
(* Events are handled one after the other.                                 *)
(***************************************************************************)
\* knowledge::Message::from(msg), for the events delivered
DiscordMessages == {m \in Messages : m.created_at = 0 /\ m.id # "m3"}

\* what agent.prompt may answer
Responses == {<<"a">>, <<"a", "\n", "#">>, <<"a", "a", "\n", "a">>}

\* chunk_message, every frame of it (calls - 1 recursive calls at most)
RECURSIVE chunk_message(_, _, _, _)
chunk_message(text, max_length, min_chunk_length, calls) ==
    LET c == chunk_message_call(text, max_length, min_chunk_length)
    IN  IF c.recurse /\ calls > 1
        THEN <<c.chunk>> \o chunk_message(c.rest, max_length, min_chunk_length, calls - 1)
        ELSE <<c.chunk>>

\* the handler goes on to the history whatever create_message returned
AfterStore_Ignore(ok) == "history"

\* if let Err(err) = ..create_message(..).await { error!(..); return; }
AfterStore(ok) == IF ok THEN "history" ELSE "done"

\* message(ctx, msg) is called: if msg.author.bot { return; }
Received(db, msg, bot) ==
    [op |-> "message", msg |-> msg, bot |-> bot, pc |-> IF bot THEN "done" ELSE "store",
     trace |-> <<>>, stored |-> FALSE, history |-> <<>>, chunks |-> <<>>, sent |-> <<>>,
     before |-> db]

InitDiscord ==
    /\ vs = SqliteStore_new
    /\ kb = KnowledgeBase_new
    /\ now = 0
    /\ used = [channels |-> {}, messages |-> {}]
    /\ rt = NoCallers
    /\ \E msg \in DiscordMessages, bot \in BOOLEAN : ret = Received(KnowledgeBase_new, msg, bot)

\* the next event is delivered
DiscordMessage ==
    /\ ret.pc = "done"
    /\ RowsWritten + 1 <= MaxRowId
    /\ \E msg \in DiscordMessages, bot \in BOOLEAN : ret' = Received(kb, msg, bot)
    /\ UNCHANGED <<vs, kb, now, used, rt>>

\* knowledge.create_message(knowledge_msg).await
DiscordStore ==
    /\ ret.pc = "store"
    /\ \E model_ok \in BOOLEAN, fault \in 0..5 :
        /\ model_ok \/ fault = 0
        /\ LET o == create_message(kb, ret.msg, model_ok, fault)
           IN  /\ kb' = o.db
               /\ ret' = [ret EXCEPT !.trace = Append(@, "store"), !.stored = o.ok,
                                     !.pc = AfterStore(o.ok)]
               /\ used' = IF o.ok
                          THEN [channels |-> used.channels \cup {ret.msg.channel_id},
                                messages |-> used.messages \cup {ret.msg.id}]
                          ELSE used
    /\ UNCHANGED <<vs, now, rt>>

\* knowledge.channel_messages(channel_id, MAX_HISTORY_MESSAGES).await
DiscordHistory ==
    /\ ret.pc = "history"
    /\ \/ \E rows \in channel_messages_rows(kb, ret.msg.channel_id, MAX_HISTORY_MESSAGES) :
             ret' = [ret EXCEPT !.trace = Append(@, "history"), !.history = Project(rows),
                                !.pc = "attention"]
       \/ ret' = [ret EXCEPT !.trace = Append(@, "history"), !.pc = "done"]
    /\ UNCHANGED <<vs, kb, now, used, rt>>

\* self.attention.should_reply(&context).await
DiscordAttention ==
    /\ ret.pc = "attention"
    /\ \E respond \in BOOLEAN :
          ret' = [ret EXCEPT !.trace = Append(@, "attention"),
                             !.pc = IF respond THEN "completion" ELSE "done"]
    /\ UNCHANGED <<vs, kb, now, used, rt>>

\* agent.prompt(&msg.content).await, then chunk_message(&response, ..)
DiscordCompletion ==
    /\ ret.pc = "completion"
    /\ \/ \E response \in Responses :
             ret' = [ret EXCEPT !.trace = Append(@, "completion"),
                                !.chunks = chunk_message(response, MAX_MESSAGE_LENGTH,
                                                         MIN_CHUNK_LENGTH, MaxCalls),
                                !.pc = "send"]
       \/ ret' = [ret EXCEPT !.trace = Append(@, "completion"), !.pc = "done"]
    /\ UNCHANGED <<vs, kb, now, used, rt>>

\* msg.channel_id.say(&ctx.http, chunk).await: an error is logged and the
\* loop goes on
DiscordSay ==
    /\ ret.pc = "send" /\ ret.chunks # <<>>
    /\ \E ok \in BOOLEAN :
          ret' = [ret EXCEPT !.trace = Append(@, "send"),
                             !.sent = Append(@, [chunk |-> Head(ret.chunks), ok |-> ok]),
                             !.chunks = Tail(@),
                             !.pc = IF Tail(ret.chunks) = <<>> THEN "done" ELSE "send"]
    /\ UNCHANGED <<vs, kb, now, used, rt>>

NextDiscord ==
    \/ DiscordMessage
    \/ DiscordStore
    \/ DiscordHistory
    \/ DiscordAttention
    \/ DiscordCompletion
    \/ DiscordSay

SpecDiscord == InitDiscord /\ [][NextDiscord]_vars

(***************************************************************************)
(* Claims about the Discord handler (checked under SpecDiscord).           *)
(***************************************************************************)
HandlerOrder == <<"store", "history", "attention", "completion">>

\* the message of the event has its row in the messages table
Committed(db, msg) ==
    \E r \in db.messages.rows : r.id = msg.id /\ r.content = msg.content

\* C26: the handler's awaits come in the order store, history, attention,
\* completion, send; when create_message failed the handler made no other
\* await, one create_message only, and sent nothing; whenever something was
\* sent, the message has its row in the store; for a message of a bot the
\* handler made no await and the store is as it was.
C26_HandlerOrderLogAndDrop ==
    /\ \A i \in DOMAIN ret.trace :
          ret.trace[i] = IF i <= Len(HandlerOrder) THEN HandlerOrder[i] ELSE "send"
    /\ (ret.trace # <<>> /\ ~ret.stored) =>
          (ret.trace = <<"store">> /\ ret.pc = "done" /\ ret.sent = <<>>)
    /\ (Len(ret.trace) > 1 \/ ret.sent # <<>>) =>
          (ret.stored /\ Committed(kb, ret.msg))
    /\ ret.bot => (ret.trace = <<>> /\ ret.sent = <<>> /\ ret.pc = "done"
                   /\ kb = ret.before)

\* a handler that went through every step and sent a reply of two chunks
C26_Witness ==
    /\ ret.op = "message" /\ ret.pc = "done" /\ ~ret.bot /\ ret.stored
    /\ ret.trace = <<"store", "history", "attention", "completion", "send", "send">>
    /\ Len(ret.sent) = 2 /\ ret.sent[1].ok
    /\ Committed(kb, ret.msg) /\ ~Committed(ret.before, ret.msg)

\* a handler whose create_message failed on the database, after an earlier
\* message was stored
C26_WitnessDropped ==
    /\ ret.op = "message" /\ ret.pc = "done" /\ ~ret.bot /\ ~ret.stored
    /\ ret.trace = <<"store">> /\ ret.sent = <<>>
    /\ kb = ret.before /\ kb.messages.rows # {}

\* a message of a bot arrived after a message was stored
C26_WitnessBot ==
    /\ ret.op = "message" /\ ret.bot /\ ret.pc = "done" /\ kb.messages.rows # {}

====
